---- MODULE Spec2Model ----
(***************************************************************************)
(* A model of mini-lsm: the write-ahead log (log_record, log_writer,        *)
(* log_reader, file_writer), the write batch, the memtable, WAL recovery    *)
(* and the DB facade.                                                       *)
(*                                                                          *)
(* Bytes are the integers 0..255 and every buffer is a sequence of bytes.   *)
(* Rust slices are 0-based and half-open; Slice(s, a, b) is s[a..b].        *)
(* A u32 CRC is kept as its four big-endian bytes, because the values       *)
(* exceed the integers TLC computes with.                                   *)
(*                                                                          *)
(* The block size is scaled down from 32 * 1024 so that the file can be     *)
(* modelled byte by byte; the quantities the source ties to it (the reader  *)
(* and writer buffer capacities, 4 blocks each, and the largest u16,        *)
(* 2 blocks - 1) keep their proportion to it.  The small constants (record  *)
(* header 7, batch header 16, length fields 4) are the source's.            *)
(***************************************************************************)
EXTENDS Integers, Sequences, FiniteSets, TLC

\* ------------------------------------------------------------------------
\* Constants of the source
\* ------------------------------------------------------------------------

\* log_record.rs: DEFAULT_BLOCK_SIZE = 32 * 1024, scaled down: large enough
\* for a batch header and two entries in one record, small enough for a file
\* of several blocks.
DEFAULT_BLOCK_SIZE == 48

LOG_RECORD_HEADER_SIZE == 7

MIN_RECORD_SIZE == LOG_RECORD_HEADER_SIZE + 1

\* log_record.rs: DEFAULT_BUFFER_CAPACITY = 128 * 1024 = 4 blocks.
DEFAULT_BUFFER_CAPACITY == 4 * DEFAULT_BLOCK_SIZE

\* log_reader.rs, to_iter: buffer_capacity = DEFAULT_BLOCK_SIZE * 4.
ReaderCapacity == DEFAULT_BLOCK_SIZE * 4

\* The largest value of the u16 `size` field: 65535 = 2 * (32 * 1024) - 1.
U16_MAX == 2 * DEFAULT_BLOCK_SIZE - 1

CRC_OFFSET == 0

SIZE_OFFSET == 4

TYPE_OFFSET == 6

PAYLOAD_OFFSET == 7

\* write_batch.rs
HEADER_SIZE == 16

COUNT_OFFSET == 0

\* RecordType discriminants
RT_None == 0

RT_First == 1

RT_Middle == 2

RT_Last == 3

RT_Full == 4

\* ------------------------------------------------------------------------
\* Bytes and slices
\* ------------------------------------------------------------------------

Min(a, b) == IF a < b THEN a ELSE b

\* s[a..b] of a Rust slice (0-based, half-open); the caller checks the range.
Slice(s, a, b) == SubSeq(s, a + 1, b)

\* s[a..]
SliceFrom(s, a) == SubSeq(s, a + 1, Len(s))

Zeros(n) == [i \in 1..n |-> 0]

\* u32::to_be_bytes for the lengths and counts of the model (all < 2^31).
U32ToBe(n) ==
    << (n \div 16777216) % 256, (n \div 65536) % 256, (n \div 256) % 256, n % 256 >>

\* u16::to_be_bytes
U16ToBe(n) == << (n \div 256) % 256, n % 256 >>

\* u16::from_be_bytes
U16FromBe(b) == b[1] * 256 + b[2]

\* u32::from_be_bytes as usize; a value of 2^31 or more cannot be computed
\* with and is reported as HugeLen, which is beyond every buffer length.
HugeLen == 128 * 16777216 - 1

U32FromBe(b) ==
    IF b[1] >= 128 THEN HugeLen
    ELSE ((b[1] * 256 + b[2]) * 256 + b[3]) * 256 + b[4]

\* ------------------------------------------------------------------------
\* CRC32C (Castagnoli), as the crc32c crate computes it: reflected
\* polynomial 0x82F63B78, initial value and final xor 0xFFFFFFFF.
\* ------------------------------------------------------------------------

RECURSIVE XorBits(_, _, _)
XorBits(a, b, n) ==
    IF n = 0 THEN 0
    ELSE ((a + b) % 2) + 2 * XorBits(a \div 2, b \div 2, n - 1)

Xor8Table == [a \in 0..255 |-> [b \in 0..255 |-> XorBits(a, b, 8)]]

Xor8(a, b) == Xor8Table[a][b]

\* One step of the bitwise CRC on a 32-bit register held as <<hi16, lo16>>.
CrcShift(r) ==
    LET hi == r[1] \div 2
        lo == (r[2] \div 2) + (r[1] % 2) * 32768
    IN  IF r[2] % 2 = 1
        THEN << XorBits(hi, 33526, 16), XorBits(lo, 15224, 16) >>
        ELSE << hi, lo >>

RECURSIVE CrcShiftN(_, _)
CrcShiftN(r, n) == IF n = 0 THEN r ELSE CrcShiftN(CrcShift(r), n - 1)

\* The table of the byte-wise algorithm, each entry as 4 big-endian bytes.
CrcTable ==
    [i \in 0..255 |->
        LET r == CrcShiftN(<<0, i>>, 8)
        IN  << r[1] \div 256, r[1] % 256, r[2] \div 256, r[2] % 256 >>]

\* crc' = table[(crc ^ byte) & 0xFF] ^ (crc >> 8)
CrcUpdate(c, byte) ==
    LET t == CrcTable[Xor8Table[c[4]][byte]]
    IN  << t[1], Xor8Table[t[2]][c[1]], Xor8Table[t[3]][c[2]], Xor8Table[t[4]][c[3]] >>

\* The register after the bytes data[lo..hi], folded over the two halves of
\* the range (the evaluation stays shallow on long inputs).
RECURSIVE CrcFold(_, _, _, _)
CrcFold(c, data, lo, hi) ==
    IF lo > hi THEN c
    ELSE IF lo = hi THEN CrcUpdate(c, data[lo])
    ELSE LET mid == (lo + hi) \div 2
             left == CrcFold(c, data, lo, mid)
         IN  IF left[1] >= 0 THEN CrcFold(left, data, mid + 1, hi) ELSE left

crc32c(data) ==
    LET c == CrcFold(<<255, 255, 255, 255>>, data, 1, Len(data))
    IN  << 255 - c[1], 255 - c[2], 255 - c[3], 255 - c[4] >>

\* ------------------------------------------------------------------------
\* Results.  st is "Ok", "Io", "ValueError", "Err" (a typed decode or CRC
\* error, named by err) or "Panic" (the process aborts).
\* ------------------------------------------------------------------------

NoErr == <<"none">>

\* ------------------------------------------------------------------------
\* log_record.rs
\* ------------------------------------------------------------------------

NoRecord == [crc |-> <<0, 0, 0, 0>>, size |-> 0, rtype |-> RT_None, payload |-> <<>>]

\* payload.len().try_into().unwrap() into the u16 size field
NewPanics(payload) == Len(payload) > U16_MAX

\* LogRecord::new; the caller checks NewPanics first.
LogRecordNew(rtype, payload) ==
    [crc |-> crc32c(payload), size |-> Len(payload), rtype |-> rtype,
     payload |-> payload]

\* LogRecord::len
RecLen(rec) == LOG_RECORD_HEADER_SIZE + Len(rec.payload)

\* A validation that accepts every record.
validate_crc_unchecked(rec) == [st |-> "Ok", err |-> NoErr]

\* LogRecord::validate_crc
validate_crc(rec) ==
    LET actual_crc == crc32c(rec.payload)
    IN  IF rec.crc = actual_crc
        THEN [st |-> "Ok", err |-> NoErr]
        ELSE [st |-> "Err", err |-> <<"InvalidCrc", rec.crc, actual_crc>>]

\* LogRecord::from_serialized_bytes.  The phantom record is built from the
\* whole input first (its size conversion aborts on an input longer than a
\* u16 holds); the fields of the result are evaluated in the order crc, size,
\* rtype, payload, so an invalid type is reported before the payload is sliced.
from_serialized_bytes(bytes) ==
    IF NewPanics(bytes)
    THEN [st |-> "Panic", err |-> NoErr, rec |-> NoRecord]
    ELSE IF Len(bytes) < MIN_RECORD_SIZE
    THEN [st |-> "Err", err |-> <<"WalRecordTooSmall", Len(bytes), MIN_RECORD_SIZE>>,
          rec |-> NoRecord]
    ELSE LET payload_size == U16FromBe(Slice(bytes, SIZE_OFFSET, SIZE_OFFSET + 2))
             record_type == bytes[TYPE_OFFSET + 1]
         IN  IF record_type > RT_Full
             THEN [st |-> "Err", err |-> <<"InvalidRecordType", record_type>>,
                   rec |-> NoRecord]
             ELSE IF PAYLOAD_OFFSET + payload_size > Len(bytes)
             THEN [st |-> "Panic", err |-> NoErr, rec |-> NoRecord]
             ELSE [st |-> "Ok", err |-> NoErr,
                   rec |-> [crc |-> Slice(bytes, CRC_OFFSET, CRC_OFFSET + 4),
                            size |-> payload_size,
                            rtype |-> record_type,
                            payload |-> Slice(bytes, PAYLOAD_OFFSET,
                                              PAYLOAD_OFFSET + payload_size)]]

\* The bytes LogWriter::append_record writes for a record.
RecordBytes(rec) ==
    rec.crc \o U16ToBe(rec.size) \o <<rec.rtype>> \o rec.payload

\* ------------------------------------------------------------------------
\* buffer_consumer.rs: a cursor [buf, pos, remaining]
\* ------------------------------------------------------------------------

BufferConsumerNew(buf) == [buf |-> buf, pos |-> 0, remaining |-> Len(buf)]

\* A consume that hands out the slice and leaves the cursor where it was.
BCConsumeKeepsCursor(c, n) ==
    LET bytes_to_consume == Min(n, c.remaining)
    IN  [data |-> Slice(c.buf, c.pos, c.pos + bytes_to_consume), c |-> c]

\* BufferConsumer::consume: the slice taken and the advanced cursor.
BCConsume(c, n) ==
    LET bytes_to_consume == Min(n, c.remaining)
    IN  [data |-> Slice(c.buf, c.pos, c.pos + bytes_to_consume),
         c |-> [c EXCEPT !.pos = @ + bytes_to_consume,
                         !.remaining = @ - bytes_to_consume]]

BCDone(c) == c.remaining = 0

BCRemaining(c) == c.remaining

\* ------------------------------------------------------------------------
\* file_writer.rs over std::io::BufWriter.  A writer is
\* [file, buf, block_pos]: the bytes in the file, the bytes buffered and
\* not yet written, and the log writer's block_pos.  io says whether the
\* operating system's writes succeed during the call.
\* ------------------------------------------------------------------------

\* BufWriter::flush_buf: writes the buffer out when it holds anything.
FlushBuf(w, io) ==
    IF w.buf = <<>> THEN [st |-> "Ok", w |-> w]
    ELSE IF io THEN [st |-> "Ok", w |-> [w EXCEPT !.file = @ \o w.buf, !.buf = <<>>]]
    ELSE [st |-> "Io", w |-> w]

\* FileWriter::append: an empty append is Ok; otherwise BufWriter::write_all:
\* data shorter than the spare capacity is buffered; otherwise the buffer is
\* flushed when the data exceeds the spare capacity, and data of at least
\* the capacity goes to the file directly.
FileWriterAppend(w, data, io) ==
    LET spare == DEFAULT_BUFFER_CAPACITY - Len(w.buf)
    IN  IF data = <<>> THEN [st |-> "Ok", w |-> w]
        ELSE IF Len(data) < spare
        THEN [st |-> "Ok", w |-> [w EXCEPT !.buf = @ \o data]]
        ELSE LET f == IF Len(data) > spare THEN FlushBuf(w, io)
                      ELSE [st |-> "Ok", w |-> w]
             IN  IF f.st # "Ok" THEN f
                 ELSE IF Len(data) >= DEFAULT_BUFFER_CAPACITY
                 THEN IF io
                      THEN [st |-> "Ok", w |-> [f.w EXCEPT !.file = @ \o data]]
                      ELSE [st |-> "Io", w |-> f.w]
                 ELSE [st |-> "Ok", w |-> [f.w EXCEPT !.buf = @ \o data]]

\* A flush that returns Ok and leaves the buffer as it is.
FileWriterFlushKeepsBuffer(w, io) == [st |-> "Ok", w |-> w]

\* FileWriter::flush
FileWriterFlush(w, io) == FlushBuf(w, io)

\* ------------------------------------------------------------------------
\* log_writer.rs
\* ------------------------------------------------------------------------

\* LogWriter::new: truncate replaces the file, otherwise it is kept and
\* appended to; block_pos starts at 0 in both modes.
LogWriterNew(file, truncate) ==
    [file |-> IF truncate THEN <<>> ELSE file, buf |-> <<>>, block_pos |-> 0]

\* A capacity that is one byte short.
remaining_block_capacity_short(w) == DEFAULT_BLOCK_SIZE - w.block_pos - 1

\* LogWriter::remaining_block_capacity
remaining_block_capacity(w) == DEFAULT_BLOCK_SIZE - w.block_pos

\* A padding step that leaves block_pos as it is.
add_block_padding_keeps_pos(w, io) ==
    IF DEFAULT_BLOCK_SIZE - w.block_pos < MIN_RECORD_SIZE
    THEN FileWriterAppend(w, Zeros(DEFAULT_BLOCK_SIZE - w.block_pos), io)
    ELSE [st |-> "Ok", w |-> w]

\* LogWriter::add_block_padding: block_pos is reset whether or not padding
\* was written.  A block_pos above the block size makes the usize
\* subtraction overflow (a panic with overflow checks, a wrapped value
\* without them), given as Panic.
add_block_padding(w, io) ==
    LET remaining_block_size == DEFAULT_BLOCK_SIZE - w.block_pos
        r == IF remaining_block_size < MIN_RECORD_SIZE
             THEN FileWriterAppend(w, Zeros(remaining_block_size), io)
             ELSE [st |-> "Ok", w |-> w]
    IN  IF remaining_block_size < 0 THEN [st |-> "Panic", w |-> w]
        ELSE IF r.st # "Ok" THEN r
        ELSE [st |-> "Ok", w |-> [r.w EXCEPT !.block_pos = 0]]

\* LogWriter::append_record: four appends, each returning early on an error.
append_record(w, rec, io) ==
    LET a1 == FileWriterAppend(w, rec.crc, io)
        a2 == FileWriterAppend(a1.w, U16ToBe(rec.size), io)
        a3 == FileWriterAppend(a2.w, <<rec.rtype>>, io)
    IN  IF a1.st # "Ok" THEN a1
        ELSE IF a2.st # "Ok" THEN a2
        ELSE IF a3.st # "Ok" THEN a3
        ELSE FileWriterAppend(a3.w, rec.payload, io)

\* A choice of record type that closes every payload with Last, a payload
\* of one record included.
ChooseTypeNoFull(done, record_count) ==
    IF done THEN RT_Last
    ELSE IF record_count = 0 THEN RT_First ELSE RT_Middle

\* The record type chosen in LogWriter::append from (done, record_count).
ChooseType(done, record_count) ==
    IF done
    THEN IF record_count = 0 THEN RT_Full ELSE RT_Last
    ELSE IF record_count = 0 THEN RT_First ELSE RT_Middle

\* One turn of the while loop of LogWriter::append: padding, the next
\* fragment taken from the consumer, the record built and appended, and
\* block_pos advanced.  rec is the record written, as a sequence of one
\* element: its type, its payload, the offset of its first byte in the
\* stream of bytes handed to the file writer, and the length of the file
\* when append_record returned for it.  A capacity below the header size
\* makes the usize subtraction of consume_count overflow, given as Panic.
AppendIteration(w, pconsumer, record_count, io) ==
    LET p == add_block_padding(w, io)
        consume_count == Min(BCRemaining(pconsumer),
                             remaining_block_capacity(p.w) - LOG_RECORD_HEADER_SIZE)
        c == BCConsume(pconsumer, consume_count)
        rtype == ChooseType(BCDone(c.c), record_count)
        record == LogRecordNew(rtype, c.data)
        a == append_record(p.w, record, io)
    IN  IF p.st # "Ok" THEN [st |-> p.st, w |-> p.w, c |-> pconsumer, rec |-> <<>>]
        ELSE IF remaining_block_capacity(p.w) < LOG_RECORD_HEADER_SIZE
        THEN [st |-> "Panic", w |-> p.w, c |-> pconsumer, rec |-> <<>>]
        ELSE IF a.st # "Ok" THEN [st |-> a.st, w |-> a.w, c |-> c.c, rec |-> <<>>]
        ELSE [st |-> "Ok",
              w |-> [a.w EXCEPT !.block_pos = @ + RecLen(record)],
              c |-> c.c,
              rec |-> <<[rtype |-> rtype, payload |-> c.data,
                         offset |-> Len(p.w.file) + Len(p.w.buf),
                         file_len |-> Len(a.w.file)]>>]

\* The while loop of LogWriter::append and the flush after it.  emitted
\* lists the records written by the call: type, payload and the offset of
\* the record's first byte in the stream of bytes handed to the file writer.
\* A capacity below the header size makes the usize subtraction of
\* consume_count overflow, given as Panic.
RECURSIVE AppendLoop(_, _, _, _, _)
AppendLoop(w, pconsumer, record_count, emitted, io) ==
    IF BCDone(pconsumer)
    THEN LET f == FileWriterFlush(w, io)
         IN  [st |-> f.st, w |-> f.w, emitted |-> emitted]
    ELSE LET p == add_block_padding(w, io)
             consume_count == Min(BCRemaining(pconsumer),
                                  remaining_block_capacity(p.w) - LOG_RECORD_HEADER_SIZE)
             c == BCConsume(pconsumer, consume_count)
             rtype == ChooseType(BCDone(c.c), record_count)
             record == LogRecordNew(rtype, c.data)
             a == append_record(p.w, record, io)
         IN  IF p.st # "Ok" THEN [st |-> p.st, w |-> p.w, emitted |-> emitted]
             ELSE IF remaining_block_capacity(p.w) < LOG_RECORD_HEADER_SIZE
             THEN [st |-> "Panic", w |-> p.w, emitted |-> emitted]
             ELSE IF a.st # "Ok" THEN [st |-> a.st, w |-> a.w, emitted |-> emitted]
             ELSE AppendLoop([a.w EXCEPT !.block_pos = @ + RecLen(record)],
                             c.c, record_count + 1,
                             Append(emitted,
                                    [rtype |-> rtype, payload |-> c.data,
                                     offset |-> Len(p.w.file) + Len(p.w.buf)]),
                             io)

\* An append without the check for an empty payload.
LogWriterAppendUnchecked(w, payload, io) ==
    AppendLoop(w, BufferConsumerNew(payload), 0, <<>>, io)

\* LogWriter::append
LogWriterAppend(w, payload, io) ==
    IF payload = <<>>
    THEN [st |-> "ValueError", w |-> w, emitted |-> <<>>]
    ELSE AppendLoop(w, BufferConsumerNew(payload), 0, <<>>, io)

\* ------------------------------------------------------------------------
\* memtable.rs: the BTreeMap as a function from the keys present to values
\* ------------------------------------------------------------------------

MemtableNew == [k \in {} |-> <<>>]

\* A table whose insert keeps the value a key already has.
MemtableInsertIfAbsent(m, key, value) ==
    [k \in DOMAIN m \cup {key} |-> IF k \in DOMAIN m THEN m[k] ELSE value]

\* A table whose insert appends the new value to the one a key already has.
MemtableInsertExtends(m, key, value) ==
    [k \in DOMAIN m \cup {key} |->
        IF k # key THEN m[k] ELSE IF k \in DOMAIN m THEN m[k] \o value ELSE value]

\* Memtable::insert_or_update (BTreeMap::insert replaces the value of a key)
MemtableInsertOrUpdate(m, key, value) ==
    [k \in DOMAIN m \cup {key} |-> IF k = key THEN value ELSE m[k]]

\* Memtable::delete (BTreeMap::remove), the table after the call
MemtableDelete(m, key) == [k \in DOMAIN m \ {key} |-> m[k]]

\* Memtable::get: <<>> for None, <<value>> for Some(value)
MemtableGet(m, key) == IF key \in DOMAIN m THEN <<m[key]>> ELSE <<>>

\* The order of the keys of the BTreeMap: TinyVec's Ord is the order of
\* slices of u8, decided at the first position where the two differ, and
\* by the lengths when one is a prefix of the other.
SliceLess(a, b) ==
    LET n == Min(Len(a), Len(b))
        differ == {i \in 1..n : a[i] # b[i]}
    IN  IF differ = {} THEN Len(a) < Len(b)
        ELSE LET i == CHOOSE d \in differ : \A e \in differ : d <= e
             IN  a[i] < b[i]

\* The keys of a set in the order the BTreeMap iterates them
RECURSIVE InOrder(_)
InOrder(S) ==
    IF S = {} THEN <<>>
    ELSE LET lo == CHOOSE k \in S : \A j \in S : j = k \/ SliceLess(k, j)
         IN  <<lo>> \o InOrder(S \ {lo})

\* Memtable::scan: BTreeMap::range(start..end) run to its end.  range
\* panics when start is greater than end; with start = end the half-open
\* range is empty.
MemtableScan(m, start, end) ==
    IF SliceLess(end, start) THEN [st |-> "Panic", items |-> <<>>]
    ELSE LET keys == InOrder({k \in DOMAIN m : ~SliceLess(k, start) /\ SliceLess(k, end)})
         IN  [st |-> "Ok",
              items |-> [i \in 1..Len(keys) |-> [key |-> keys[i], value |-> m[keys[i]]]]]

\* ------------------------------------------------------------------------
\* write_batch.rs
\* ------------------------------------------------------------------------

\* WriteBatch::new: the header, all zero
WriteBatchNew == Zeros(HEADER_SIZE)

\* WriteBatch::count
WBCount(entries) == U32FromBe(Slice(entries, COUNT_OFFSET, COUNT_OFFSET + 4))

\* A count stored with the low byte first.
WBIncrementCountLe(entries) ==
    LET count == WBCount(entries) + 1
        be == U32ToBe(count)
    IN  Slice(entries, 0, COUNT_OFFSET) \o <<be[4], be[3], be[2], be[1]>>
            \o SliceFrom(entries, COUNT_OFFSET + 4)

\* WriteBatch::increment_count
WBIncrementCount(entries) ==
    LET count == WBCount(entries) + 1
    IN  Slice(entries, 0, COUNT_OFFSET) \o U32ToBe(count)
            \o SliceFrom(entries, COUNT_OFFSET + 4)

\* WriteBatch::insert_or_update
WBInsertOrUpdate(entries, key, value) ==
    WBIncrementCount(entries \o U32ToBe(Len(key)) \o key \o U32ToBe(Len(value))
                         \o (IF Len(value) > 0 THEN value ELSE <<>>))

\* A delete that writes a value of one zero byte.
WBDeleteZeroByte(entries, key) == WBInsertOrUpdate(entries, key, <<0>>)

\* WriteBatch::delete
WBDelete(entries, key) == WBInsertOrUpdate(entries, key, <<>>)

\* WriteBatch::len
WBLen(entries) == Len(entries)

\* WriteBatch::is_empty
WBIsEmpty(entries) == WBCount(entries) = 0

\* A clear that cuts the entries off and leaves the header as it is.
WBClearKeepsHeader(entries) == Slice(entries, 0, HEADER_SIZE)

\* WriteBatch::clear: the vector is resized to the header (cut, or filled
\* up with zeros), then the header is overwritten with zeros.
WBClear(entries) ==
    LET resized == IF Len(entries) >= HEADER_SIZE THEN Slice(entries, 0, HEADER_SIZE)
                   ELSE entries \o Zeros(HEADER_SIZE - Len(entries))
    IN  [i \in 1..Len(resized) |-> 0]

\* The bytes of the entries without the header.
WBAsBytesNoHeader(entries) == SliceFrom(entries, HEADER_SIZE)

\* WriteBatch::as_bytes
WBAsBytes(entries) == entries

\* WriteBatchIterator::next at position pos of payload.  kind is "None",
\* "Some" (key, and value as <<>> for None or <<v>> for Some(v)) or "Panic"
\* (a slice beyond the payload).  Lengths are compared with what is left of
\* the payload before they are added to pos.
WBIterNext(payload, pos) ==
    LET none == [kind |-> "None", key |-> <<>>, value |-> <<>>, pos |-> pos]
        panic == [kind |-> "Panic", key |-> <<>>, value |-> <<>>, pos |-> pos]
    IN  IF pos = Len(payload) THEN none
        ELSE IF pos + 4 > Len(payload) THEN panic
        ELSE LET key_len == U32FromBe(Slice(payload, pos, pos + 4))
                 p1 == pos + 4
             IN  IF key_len > Len(payload) - p1 THEN panic
                 ELSE LET key == Slice(payload, p1, p1 + key_len)
                          p2 == p1 + key_len
                      IN  IF p2 + 4 > Len(payload) THEN panic
                          ELSE LET value_len == U32FromBe(Slice(payload, p2, p2 + 4))
                                   p3 == p2 + 4
                               IN  IF value_len = 0
                                   THEN [kind |-> "Some", key |-> key,
                                         value |-> <<>>, pos |-> p3]
                                   ELSE IF value_len > Len(payload) - p3 THEN panic
                                   ELSE [kind |-> "Some", key |-> key,
                                         value |-> <<Slice(payload, p3, p3 + value_len)>>,
                                         pos |-> p3 + value_len]

\* WriteBatch::iter / WriteBatchIterator::from_payload run to the end: the
\* entries yielded, and whether the iteration ended or aborted.
RECURSIVE WBIterAll(_, _, _)
WBIterAll(payload, pos, acc) ==
    LET n == WBIterNext(payload, pos)
    IN  IF n.kind = "None" THEN [st |-> "Ok", entries |-> acc]
        ELSE IF n.kind = "Panic" THEN [st |-> "Panic", entries |-> acc]
        ELSE WBIterAll(payload, n.pos, Append(acc, [key |-> n.key, value |-> n.value]))

WBIter(payload) == WBIterAll(payload, HEADER_SIZE, <<>>)

\* The match on the value in handle_payload: Some inserts, None deletes.
ApplyEntry(m, e) ==
    IF e.value # <<>> THEN MemtableInsertOrUpdate(m, e.key, e.value[1])
    ELSE MemtableDelete(m, e.key)

RECURSIVE ApplyEntries(_, _, _)
ApplyEntries(m, entries, i) ==
    IF i > Len(entries) THEN m
    ELSE ApplyEntries(ApplyEntry(m, entries[i]), entries, i + 1)

\* A replay that applies the first entry of a batch and drops the rest.
handle_payload_first_only(m, payload) ==
    LET it == WBIter(payload)
    IN  [st |-> it.st, memtable |-> ApplyEntries(m, SubSeq(it.entries, 1, Min(1, Len(it.entries))), 1)]

\* wal_recovery::handle_payload: every entry the iterator yields is applied
\* as it is yielded.
handle_payload(m, payload) ==
    LET it == WBIter(payload)
    IN  [st |-> it.st, memtable |-> ApplyEntries(m, it.entries, 1)]

\* wal_recovery::consume_write_batch, called by DB::write: each entry of the
\* batch is applied in order to the memtable.
consume_write_batch(m, wb) ==
    ApplyEntries(m, WBIter(wb).entries, 1)

\* WriteBatchBuilder: [entries, ready]
WriteBatchBuilderNew == [entries |-> <<>>, ready |-> FALSE]

\* An accumulation that passes over a record of type None in silence.
accumulate_record_skips_none(b, rec) ==
    LET v == validate_crc(rec)
    IN  IF v.st # "Ok" THEN [st |-> "Err", err |-> v.err, b |-> b]
        ELSE IF rec.rtype \in {RT_First, RT_Middle}
        THEN [st |-> "Ok", err |-> NoErr, b |-> [b EXCEPT !.entries = @ \o rec.payload]]
        ELSE IF rec.rtype \in {RT_Full, RT_Last}
        THEN [st |-> "Ok", err |-> NoErr,
              b |-> [entries |-> b.entries \o rec.payload, ready |-> TRUE]]
        ELSE [st |-> "Ok", err |-> NoErr, b |-> b]

\* WriteBatchBuilder::accumulate_record
accumulate_record(b, rec) ==
    LET v == validate_crc(rec)
    IN  IF v.st # "Ok" THEN [st |-> "Err", err |-> v.err, b |-> b]
        ELSE IF rec.rtype \in {RT_First, RT_Middle}
        THEN [st |-> "Ok", err |-> NoErr, b |-> [b EXCEPT !.entries = @ \o rec.payload]]
        ELSE IF rec.rtype \in {RT_Full, RT_Last}
        THEN [st |-> "Ok", err |-> NoErr,
              b |-> [entries |-> b.entries \o rec.payload, ready |-> TRUE]]
        ELSE [st |-> "Panic", err |-> NoErr, b |-> b]

\* WriteBatchBuilder::consume
BuilderConsume(b) == [entries |-> <<>>, ready |-> FALSE]

\* WriteBatchBuilder::is_ready
BuilderIsReady(b) == b.ready

\* ------------------------------------------------------------------------
\* log_reader.rs over std::io::BufReader.  An iterator is
\* [file_pos, buf, pos, curr_idx, bytes_remaining, bytes_read]: the offset
\* of the file read so far, BufReader's buffer and position in it, and the
\* three counters of Iter.
\* ------------------------------------------------------------------------

\* LogReader::to_iter
IterNew ==
    [file_pos |-> 0, buf |-> <<>>, pos |-> 0,
     curr_idx |-> 0, bytes_remaining |-> 0, bytes_read |-> 0]

\* BufReader::consume
BufReaderConsume(it, amt) == [it EXCEPT !.pos = Min(@ + amt, Len(it.buf))]

\* BufReader::fill_buf: reads up to the capacity when the buffer is used up
BufReaderFillBuf(file, it) ==
    IF it.pos >= Len(it.buf)
    THEN LET n == Min(ReaderCapacity, Len(file) - it.file_pos)
         IN  [it EXCEPT !.buf = Slice(file, it.file_pos, it.file_pos + n),
                        !.pos = 0, !.file_pos = @ + n]
    ELSE it

\* BufReader::buffer
BufReaderBuffer(it) == SliceFrom(it.buf, it.pos)

\* The offset in the file of the byte at curr_idx
Cursor(it) == it.file_pos - Len(it.buf) + it.pos + it.curr_idx

\* The assert_eq at the head of the three helpers of Iter
CursorOk(it) == it.bytes_read = it.bytes_remaining + it.curr_idx

min_record_size_bytes_remaining(it) == it.bytes_remaining >= MIN_RECORD_SIZE

\* A consume_remaining_bytes that leaves curr_idx as it is.
consume_remaining_bytes_keeps_idx(it) ==
    [BufReaderConsume(it, it.bytes_remaining + it.curr_idx) EXCEPT !.bytes_remaining = 0]

\* Iter::consume_remaining_bytes
consume_remaining_bytes(it) ==
    LET c == BufReaderConsume(it, it.bytes_remaining + it.curr_idx)
    IN  [c EXCEPT !.curr_idx = @ + it.bytes_remaining, !.bytes_remaining = 0]

\* Iter::fill_buffer
fill_buffer(file, it) ==
    LET f == BufReaderFillBuf(file, [it EXCEPT !.curr_idx = 0])
        n == Len(BufReaderBuffer(f))
    IN  [f EXCEPT !.bytes_read = n, !.bytes_remaining = n]

\* Iter::read_record: the decode result and the advanced iterator
read_record(it) ==
    LET whole == BufReaderBuffer(it)
    IN  IF ~CursorOk(it) \/ it.curr_idx > Len(whole)
        THEN [kind |-> "Panic", err |-> NoErr, rec |-> NoRecord, it |-> it]
        ELSE LET d == from_serialized_bytes(SliceFrom(whole, it.curr_idx))
             IN  IF d.st = "Panic"
                 THEN [kind |-> "Panic", err |-> NoErr, rec |-> NoRecord, it |-> it]
                 ELSE IF d.st = "Err"
                 THEN [kind |-> "Err", err |-> d.err, rec |-> NoRecord, it |-> it]
                 ELSE [kind |-> "Some", err |-> NoErr, rec |-> d.rec,
                       it |-> [it EXCEPT !.curr_idx = @ + RecLen(d.rec),
                                         !.bytes_remaining = @ - RecLen(d.rec)]]

\* Iter::next: kind is "None", "Some" (rec), "Err" (err) or "Panic"
IterNext(file, it) ==
    LET refill == ~min_record_size_bytes_remaining(it)
        bad == refill /\ (~CursorOk(it) \/ ~CursorOk(consume_remaining_bytes(it)))
        a == IF refill THEN fill_buffer(file, consume_remaining_bytes(it)) ELSE it
    IN  IF bad THEN [kind |-> "Panic", err |-> NoErr, rec |-> NoRecord, it |-> it]
        ELSE IF ~min_record_size_bytes_remaining(a)
        THEN [kind |-> "None", err |-> NoErr, rec |-> NoRecord, it |-> a]
        ELSE read_record(a)

\* ------------------------------------------------------------------------
\* wal_recovery.rs
\* ------------------------------------------------------------------------

\* The while loop of wal_recovery::load over the records the reader yields.
RECURSIVE LoadLoop(_, _, _, _)
LoadLoop(file, it, buffer, m) ==
    LET n == IterNext(file, it)
        v == validate_crc(n.rec)
        full == handle_payload(m, n.rec.payload)
        last == handle_payload(m, buffer \o n.rec.payload)
    IN  IF n.kind = "None" THEN [st |-> "Ok", err |-> NoErr, memtable |-> m]
        ELSE IF n.kind = "Panic" THEN [st |-> "Panic", err |-> NoErr, memtable |-> m]
        ELSE IF n.kind = "Err" THEN [st |-> "Err", err |-> n.err, memtable |-> m]
        ELSE IF v.st # "Ok" THEN [st |-> "Err", err |-> v.err, memtable |-> m]
        ELSE IF n.rec.rtype = RT_Full
        THEN IF full.st = "Panic"
             THEN [st |-> "Panic", err |-> NoErr, memtable |-> full.memtable]
             ELSE LoadLoop(file, n.it, buffer, full.memtable)
        ELSE IF n.rec.rtype \in {RT_First, RT_Middle}
        THEN LoadLoop(file, n.it, buffer \o n.rec.payload, m)
        ELSE IF n.rec.rtype = RT_Last
        THEN IF last.st = "Panic"
             THEN [st |-> "Panic", err |-> NoErr, memtable |-> last.memtable]
             ELSE LoadLoop(file, n.it, <<>>, last.memtable)
        ELSE [st |-> "Panic", err |-> NoErr, memtable |-> m]

\* wal_recovery::load
load(file, m) == LoadLoop(file, IterNew, <<>>, m)

\* ------------------------------------------------------------------------
\* Bounds and inputs
\* ------------------------------------------------------------------------

\* Mutating calls made on the database in one behaviour
MaxOps == 2

\* DB::new calls on the log path in one behaviour
MaxOpens == 3

\* LogWriter::append calls in one behaviour of the log specification
MaxAppends == 3

\* Operations put in a WriteBatch between two clears
MaxBatchOps == 3

Keys == {<<1>>, <<2, 3>>}

\* The value that, inserted under the key <<1>>, makes a batch whose record
\* ends LOG_RECORD_HEADER_SIZE bytes before the end of a block (in the
\* source's sizes: a 4-byte key with a value of 32,726 bytes).
LongValue == [i \in 1..(DEFAULT_BLOCK_SIZE - 39) |-> (5 + 3 * i) % 256]

Values == {<<9>>, LongValue}

\* A logical operation: value is <<v>> for an insert of v, <<>> for a delete.
Put(k, v) == [key |-> k, value |-> <<v>>]

Del(k) == [key |-> k, value |-> <<>>]

\* The batches handed to DB::write: an empty one, and one that is written as
\* two records and whose result depends on the order of its entries.
BatchInputs ==
    { <<>>,
      << Del(<<2, 3>>), Put(<<2, 3>>, <<8, 7>>), Put(<<1>>, <<8, 7>>) >> }

\* The caller's construction of a WriteBatch from logical operations.
RECURSIVE BuildBatch(_, _, _)
BuildBatch(wb, ops, i) ==
    IF i > Len(ops) THEN wb
    ELSE BuildBatch(IF ops[i].value = <<>> THEN WBDelete(wb, ops[i].key)
                    ELSE WBInsertOrUpdate(wb, ops[i].key, ops[i].value[1]),
                    ops, i + 1)

\* Payload of n bytes for the log specification; the bytes differ from one
\* position to the next and from one seed to the next.
Pattern(n, seed) == [i \in 1..n |-> (seed + 3 * i) % 256]

PayloadLens ==
    { 0, 1, 3, DEFAULT_BLOCK_SIZE - 8, DEFAULT_BLOCK_SIZE - 7, DEFAULT_BLOCK_SIZE - 6,
      2 * DEFAULT_BLOCK_SIZE }

\* ------------------------------------------------------------------------
\* The abstract map the claims compare the database with: a total function
\* on Keys, <<>> for an absent key and <<v>> for a key bound to v.
\* ------------------------------------------------------------------------

ModelEmpty == [k \in Keys |-> <<>>]

ModelApply(map, op) == [map EXCEPT ![op.key] = op.value]

RECURSIVE ModelApplyAll(_, _, _)
ModelApplyAll(map, ops, i) ==
    IF i > Len(ops) THEN map ELSE ModelApplyAll(ModelApply(map, ops[i]), ops, i + 1)

ModelOf(m) == [k \in Keys |-> MemtableGet(m, k)]

\* ------------------------------------------------------------------------
\* State
\* ------------------------------------------------------------------------

VARIABLES
    file,          \* the bytes of the log file
    fw_buf,        \* FileWriter: bytes buffered by the BufWriter
    block_pos,     \* LogWriter::block_pos
    memtable,      \* DB::memtable
    db_state,      \* "open" while there is a DB instance; "none" when DB::new
                   \* returned an error or aborted
    pc,            \* position in DB::write: "idle", or "apply" between the
                   \* log append and consume_write_batch
    pending,       \* the batch DB::write is applying: [wb, ops]
    last_op,       \* the last call: "new", "insert_or_update", "delete",
                   \* "write", "reopen", "append", "to_iter", "next", "get",
                   \* "scan", "wb_insert_or_update", "wb_delete", "wb_clear"
    last_key,      \* the key of the last insert_or_update or delete
    last_result,   \* what the last call returned: "Ok", "Io", "ValueError",
                   \* "Err", "Panic", "None"; "pending" inside DB::write
    expect,        \* history: the abstract map of every batch whose bytes are
                   \* in the file
    unflushed,     \* history: the operations of the batches whose bytes are
                   \* held in the BufWriter after a failed flush
    live,          \* history: the abstract map of this instance, from the
                   \* memtable it opened with and the calls it returned Ok to
    prev,          \* history: the memtable of the instance dropped by the
                   \* last reopen
    prev_calls,    \* history: calls the dropped instance returned Ok to
    calls,         \* history: calls this instance returned Ok to
    len_at_call,   \* history: length of the file when DB::write was entered
    opens,         \* history: DB::new calls so far
    nops,          \* history: mutating calls so far
    all_ok,        \* history: no call has returned Io so far
    iter,          \* log_reader::Iter
    rd_state,      \* "writing", then "reading", then "eof", "error" or "panic";
                   \* "unused" in the database specification
    builder,       \* WriteBatchBuilder
    got,           \* payloads reassembled by the reader so far
    rd_at,         \* history: the offset in the file at which the last next()
                   \* decoded, -1 when it decoded nothing
    written,       \* history: payloads appended with Ok
    last_payload,  \* history: the payload of the last append
    last_emitted,  \* history: the records written by the last append
    spans,         \* history: offset and length of every record written
                   \* while no call has failed; in the database
                   \* specifications also the abstract map before the batch
                   \* the record belongs to
    batch,         \* WriteBatch::entries of the batch the caller builds
    batch_ops,     \* history: the operations put in the batch since it was
                   \* created or cleared
    batch_cleared, \* history: "never" until the batch is cleared, then whether
                   \* the last clear found it "empty" or "nonempty"
    read_out,      \* the DB::get or DB::scan made since the memtable last
                   \* changed: arguments and outcome
    corrupt,       \* history: the byte of the file that was changed between
                   \* two instances: the record (its place in spans and its
                   \* offset) and the byte's place in the record
    codec          \* a record on its way through serialization and
                   \* LogRecord::from_serialized_bytes: the type and payload
                   \* serialized, the bytes (as written, or changed on the
                   \* way) and the outcome of decoding them

wvars == <<file, fw_buf, block_pos>>

dbvars == <<memtable, db_state, pc, pending>>

callvars == <<last_op, last_key, last_result>>

histvars == <<expect, unflushed, live, prev, prev_calls, calls, len_at_call, opens, nops, all_ok>>

rdvars == <<iter, rd_state, builder, got, rd_at>>

loghist == <<written, last_payload, last_emitted, spans>>

unitvars == <<batch, batch_ops, batch_cleared, read_out, corrupt, codec>>

vars == <<wvars, dbvars, callvars, histvars, rdvars, loghist, unitvars>>

Writer == [file |-> file, buf |-> fw_buf, block_pos |-> block_pos]

NoPending == [wb |-> <<>>, ops |-> <<>>]

NoRead == [op |-> "none", start |-> <<>>, end |-> <<>>, st |-> "Ok", items |-> <<>>]

\* rec is 0 while no byte has been changed
NoCorrupt == [rec |-> 0, offset |-> 0, at |-> 0]

\* stage is "none", then "bytes" once a record is serialized and "decoded"
\* once the bytes went through from_serialized_bytes; tamper names what was
\* done to the bytes in between
NoCodec ==
    [stage |-> "none", rtype |-> RT_None, payload |-> <<>>, bytes |-> <<>>,
     tamper |-> "none", st |-> "Ok", err |-> NoErr, rec |-> NoRecord,
     crc |-> "Ok"]

\* A new WriteBatch in the caller's hands, nothing read, nothing corrupted,
\* no record serialized
UnitInit ==
    /\ batch = WriteBatchNew /\ batch_ops = <<>> /\ batch_cleared = "never"
    /\ read_out = NoRead /\ corrupt = NoCorrupt /\ codec = NoCodec

\* ------------------------------------------------------------------------
\* The DB facade (lib.rs)
\* ------------------------------------------------------------------------

\* DB::new on a path where no file exists: empty memtable, LogWriter::new in
\* append mode creates the file.
Init ==
    /\ file = <<>> /\ fw_buf = <<>> /\ block_pos = 0
    /\ memtable = MemtableNew /\ db_state = "open" /\ pc = "idle"
    /\ pending = NoPending
    /\ last_op = "new" /\ last_key = <<>> /\ last_result = "Ok"
    /\ expect = ModelEmpty /\ unflushed = <<>> /\ live = ModelEmpty
    /\ prev = MemtableNew /\ prev_calls = 0 /\ calls = 0 /\ len_at_call = 0
    /\ opens = 1 /\ nops = 0 /\ all_ok = TRUE
    /\ iter = IterNew /\ rd_state = "unused" /\ builder = WriteBatchBuilderNew
    /\ got = <<>> /\ rd_at = -1
    /\ written = <<>> /\ last_payload = <<>> /\ last_emitted = <<>> /\ spans = <<>>
    /\ UnitInit

\* A write that goes on to the memtable whatever the append returned.
WriteContinuesAlways(st) == TRUE

\* The `?` on log_writer.append in DB::write: the memtable is touched only
\* when the append returned Ok.
WriteContinues(st) == st = "Ok"

\* DB::write up to the return of log_writer.append.
WriteLog(name, key, ops, io) ==
    LET wb == BuildBatch(WriteBatchNew, ops, 1)
        r == LogWriterAppend(Writer, WBAsBytes(wb), io)
    IN  /\ db_state = "open" /\ pc = "idle" /\ nops < MaxOps
        /\ file' = r.w.file /\ fw_buf' = r.w.buf /\ block_pos' = r.w.block_pos
        /\ last_op' = name /\ last_key' = key
        /\ nops' = nops + 1
        /\ len_at_call' = Len(file)
        /\ IF WriteContinues(r.st)
           THEN /\ pc' = "apply" /\ pending' = [wb |-> wb, ops |-> ops]
                /\ last_result' = "pending"
           ELSE /\ pc' = "idle" /\ pending' = NoPending
                /\ last_result' = r.st
        /\ all_ok' = (all_ok /\ r.st = "Ok")
        /\ expect' = IF r.st = "Ok"
                     THEN ModelApplyAll(ModelApplyAll(expect, unflushed, 1), ops, 1)
                     ELSE expect
        /\ unflushed' = IF r.st = "Ok" THEN <<>> ELSE unflushed \o ops
        /\ spans' = (IF all_ok /\ r.st = "Ok"
                     THEN spans \o [i \in 1..Len(r.emitted) |->
                                       [offset |-> r.emitted[i].offset,
                                        len |-> LOG_RECORD_HEADER_SIZE
                                                    + Len(r.emitted[i].payload),
                                        before |-> expect]]
                     ELSE <<>>)
        /\ UNCHANGED <<memtable, db_state, live, prev, prev_calls, calls, opens>>
        /\ UNCHANGED <<rdvars, written, last_payload, last_emitted, unitvars>>

\* DB::write from consume_write_batch to the return of Ok.
WriteApply ==
    /\ pc = "apply"
    /\ memtable' = consume_write_batch(memtable, pending.wb)
    /\ pc' = "idle" /\ pending' = NoPending
    /\ last_result' = "Ok"
    /\ live' = ModelApplyAll(live, pending.ops, 1)
    /\ calls' = calls + 1
    /\ UNCHANGED <<wvars, db_state, last_op, last_key>>
    /\ UNCHANGED <<expect, unflushed, prev, prev_calls, len_at_call, opens, nops, all_ok>>
    /\ UNCHANGED <<rdvars, loghist, unitvars>>

\* DB::insert_or_update
InsertOrUpdate ==
    \E k \in Keys, v \in Values, io \in BOOLEAN :
        WriteLog("insert_or_update", k, <<Put(k, v)>>, io)

\* DB::delete
Delete ==
    \E k \in Keys, io \in BOOLEAN : WriteLog("delete", k, <<Del(k)>>, io)

\* DB::write
Write ==
    \E ops \in BatchInputs, io \in BOOLEAN : WriteLog("write", <<>>, ops, io)

\* DB::get: Ok around Memtable::get
DBGet(m, key) == [st |-> "Ok", items |-> MemtableGet(m, key)]

\* DB::scan: Ok around the iterator of Memtable::scan
DBScan(m, start, end) == MemtableScan(m, start, end)

\* DB::new on the log of a dropped instance.
DBNew(f) ==
    IF Len(f) > 0 THEN load(f, MemtableNew)
    ELSE [st |-> "Ok", err |-> NoErr, memtable |-> MemtableNew]

\* The instance is dropped (the BufWriter writes out what it still holds,
\* ignoring a failure) and DB::new is called on the same path.  An
\* instance is dropped after at least one call on it: dropping one that was
\* given none replays the file it was itself recovered from.
Reopen ==
    \E io \in BOOLEAN :
        LET f == FlushBuf(Writer, io).w.file
            r == DBNew(f)
            w == LogWriterNew(f, FALSE)
        IN  /\ db_state = "open" /\ pc = "idle"
            /\ opens < MaxOpens /\ last_op \notin {"new", "reopen"}
            /\ (fw_buf = <<>> => io)
            /\ file' = w.file /\ fw_buf' = w.buf /\ block_pos' = w.block_pos
            /\ db_state' = IF r.st = "Ok" THEN "open" ELSE "none"
            /\ memtable' = IF r.st = "Ok" THEN r.memtable ELSE MemtableNew
            /\ last_op' = "reopen" /\ last_key' = <<>> /\ last_result' = r.st
            /\ live' = IF r.st = "Ok" THEN ModelOf(r.memtable) ELSE ModelEmpty
            /\ prev' = memtable /\ prev_calls' = calls /\ calls' = 0
            /\ opens' = opens + 1
            /\ expect' = IF io THEN ModelApplyAll(expect, unflushed, 1) ELSE expect
            /\ unflushed' = <<>>
            /\ UNCHANGED <<pc, pending, len_at_call, nops, all_ok>>
            /\ UNCHANGED <<rdvars, loghist, unitvars>>

Next == InsertOrUpdate \/ Delete \/ Write \/ WriteApply \/ Reopen

Spec == Init /\ [][Next]_vars

\* ------------------------------------------------------------------------
\* Recovery of a damaged log: the database is used, the instance is dropped,
\* one byte of a record changes in the file, and DB::new is called on it
\* (lib.rs, wal_recovery.rs)
\* ------------------------------------------------------------------------

\* The places in a record where the byte changes: the first and the last
\* byte of the crc and the first byte of the payload
CorruptAt == {CRC_OFFSET, CRC_OFFSET + 3, PAYLOAD_OFFSET}

\* The file with the byte at index p (from 1) changed
Damaged(f, p) == [f EXCEPT ![p] = (@ + 1) % 256]

\* The instance is dropped with nothing buffered, a byte of a record
\* changes, and DB::new is called on the same path.
ReopenDamaged ==
    /\ db_state = "open" /\ pc = "idle"
    /\ opens < MaxOpens
    /\ all_ok /\ fw_buf = <<>> /\ corrupt = NoCorrupt
    /\ \E i \in 1..Len(spans), at \in CorruptAt :
         \E f \in {Damaged(file, spans[i].offset + at + 1)} :
         \E r \in {DBNew(f)} :
            LET w == LogWriterNew(f, FALSE)
            IN  /\ corrupt' = [rec |-> i, offset |-> spans[i].offset, at |-> at]
                /\ file' = w.file /\ fw_buf' = w.buf /\ block_pos' = w.block_pos
                /\ db_state' = IF r.st = "Ok" THEN "open" ELSE "none"
                /\ memtable' = IF r.st = "Ok" THEN r.memtable ELSE MemtableNew
                /\ last_op' = "reopen" /\ last_key' = <<>> /\ last_result' = r.st
                /\ live' = IF r.st = "Ok" THEN ModelOf(r.memtable) ELSE ModelEmpty
                /\ prev' = memtable /\ prev_calls' = calls /\ calls' = 0
                /\ opens' = opens + 1
                /\ UNCHANGED <<pc, pending, expect, unflushed, len_at_call, nops, all_ok>>
                /\ UNCHANGED <<rdvars, loghist, batch, batch_ops, batch_cleared, read_out, codec>>

NextDamaged == InsertOrUpdate \/ Delete \/ Write \/ WriteApply \/ ReopenDamaged

SpecDamaged == Init /\ [][NextDamaged]_vars

\* ------------------------------------------------------------------------
\* Empty values: the database is given inserts of values and of the empty
\* value, which WriteBatch::insert_or_update accepts, and is reopened
\* (lib.rs, write_batch.rs)
\* ------------------------------------------------------------------------

\* DB::insert_or_update with an empty value
InsertEmpty ==
    \E k \in Keys, io \in BOOLEAN :
        WriteLog("insert_or_update", k, <<Put(k, <<>>)>>, io)

NextEmptyValue == InsertOrUpdate \/ InsertEmpty \/ WriteApply \/ Reopen

SpecEmptyValue == Init /\ [][NextEmptyValue]_vars

\* ------------------------------------------------------------------------
\* The log alone: a LogWriter opened in truncate mode, then a LogReader on
\* the file it wrote, its records reassembled by a WriteBatchBuilder
\* (log_reader.rs, tests::test_iter_next).
\* ------------------------------------------------------------------------

InitLog ==
    /\ file = <<>> /\ fw_buf = <<>> /\ block_pos = 0
    /\ memtable = MemtableNew /\ db_state = "none" /\ pc = "idle"
    /\ pending = NoPending
    /\ last_op = "new" /\ last_key = <<>> /\ last_result = "Ok"
    /\ expect = ModelEmpty /\ unflushed = <<>> /\ live = ModelEmpty
    /\ prev = MemtableNew /\ prev_calls = 0 /\ calls = 0 /\ len_at_call = 0
    /\ opens = 0 /\ nops = 0 /\ all_ok = TRUE
    /\ iter = IterNew /\ rd_state = "writing" /\ builder = WriteBatchBuilderNew
    /\ got = <<>> /\ rd_at = -1
    /\ written = <<>> /\ last_payload = <<>> /\ last_emitted = <<>> /\ spans = <<>>
    /\ UnitInit

SpanOf(e) == [offset |-> e.offset, len |-> LOG_RECORD_HEADER_SIZE + Len(e.payload)]

\* LogWriter::append of a payload of one of the lengths of PayloadLens.  The
\* bytes are chosen so that the second payload of one byte is <<255>>, whose
\* crc ends in a zero byte.
LogAppend ==
    \E n \in PayloadLens, io \in BOOLEAN :
        LET payload == Pattern(n, 251 + nops)
            r == LogWriterAppend(Writer, payload, io)
        IN  /\ rd_state = "writing" /\ nops < MaxAppends
            /\ (n = 0 => io)
            /\ file' = r.w.file /\ fw_buf' = r.w.buf /\ block_pos' = r.w.block_pos
            /\ last_op' = "append" /\ last_result' = r.st
            /\ nops' = nops + 1
            /\ len_at_call' = Len(file)
            /\ all_ok' = (all_ok /\ r.st = "Ok")
            /\ written' = (IF r.st = "Ok" THEN Append(written, payload) ELSE written)
            /\ last_payload' = payload
            /\ last_emitted' = r.emitted
            /\ spans' = (IF r.st = "Ok"
                         THEN spans \o [i \in 1..Len(r.emitted) |-> SpanOf(r.emitted[i])]
                         ELSE spans)
            /\ UNCHANGED <<dbvars, last_key, expect, unflushed, live, prev, prev_calls,
                           calls, opens>>
            /\ UNCHANGED <<rdvars, unitvars>>

\* LogReader::new and LogReader::to_iter on the file
ToIter ==
    /\ rd_state = "writing"
    /\ rd_state' = "reading" /\ iter' = IterNew
    /\ builder' = WriteBatchBuilderNew /\ got' = <<>> /\ rd_at' = -1
    /\ last_op' = "to_iter" /\ last_result' = "Ok"
    /\ UNCHANGED <<wvars, dbvars, last_key, histvars, loghist, unitvars>>

\* One turn of the loop of test_iter_next: Iter::next, the record unwrapped
\* and accumulated; a batch that is ready is taken and the builder consumed.
ReadNext ==
    LET n == IterNext(file, iter)
        a == accumulate_record(builder, n.rec)
        ok == n.kind = "Some" /\ a.st = "Ok"
    IN  /\ rd_state = "reading"
        /\ last_op' = "next"
        /\ iter' = n.it
        /\ rd_state' = (CASE n.kind = "None" -> "eof"
                          [] n.kind = "Panic" -> "panic"
                          [] n.kind = "Err" -> "error"
                          [] OTHER -> IF a.st = "Ok" THEN "reading"
                                      ELSE IF a.st = "Err" THEN "error"
                                      ELSE "panic")
        /\ last_result' = (CASE n.kind = "None" -> "None"
                             [] n.kind = "Panic" -> "Panic"
                             [] n.kind = "Err" -> "Err"
                             [] OTHER -> a.st)
        /\ builder' = (IF ~ok THEN builder
                       ELSE IF BuilderIsReady(a.b) THEN BuilderConsume(a.b) ELSE a.b)
        /\ got' = (IF ok /\ BuilderIsReady(a.b) THEN Append(got, a.b.entries) ELSE got)
        /\ rd_at' = (IF n.kind = "None" THEN -1
                     ELSE IF n.kind = "Some" THEN Cursor(n.it) - RecLen(n.rec)
                     ELSE Cursor(n.it))
        /\ UNCHANGED <<wvars, dbvars, last_key, histvars, loghist, unitvars>>

NextLog == LogAppend \/ ToIter \/ ReadNext

SpecLog == InitLog /\ [][NextLog]_vars

\* ------------------------------------------------------------------------
\* The write batch alone: WriteBatch::new, then insert_or_update, delete and
\* clear in any order (write_batch.rs)
\* ------------------------------------------------------------------------

\* Values handed to WriteBatch::insert_or_update, the empty one among them
BatchValues == {<<>>, <<9>>, <<8, 7>>}

InitBatch ==
    /\ file = <<>> /\ fw_buf = <<>> /\ block_pos = 0
    /\ memtable = MemtableNew /\ db_state = "none" /\ pc = "idle"
    /\ pending = NoPending
    /\ last_op = "new" /\ last_key = <<>> /\ last_result = "Ok"
    /\ expect = ModelEmpty /\ unflushed = <<>> /\ live = ModelEmpty
    /\ prev = MemtableNew /\ prev_calls = 0 /\ calls = 0 /\ len_at_call = 0
    /\ opens = 0 /\ nops = 0 /\ all_ok = TRUE
    /\ iter = IterNew /\ rd_state = "unused" /\ builder = WriteBatchBuilderNew
    /\ got = <<>> /\ rd_at = -1
    /\ written = <<>> /\ last_payload = <<>> /\ last_emitted = <<>> /\ spans = <<>>
    /\ UnitInit

\* What the batch actions leave alone
BatchFrame ==
    UNCHANGED <<wvars, dbvars, last_result, histvars, rdvars, loghist, read_out, corrupt,
                codec>>

\* WriteBatch::insert_or_update
BatchInsertOrUpdate ==
    \E k \in Keys, v \in BatchValues :
        /\ Len(batch_ops) < MaxBatchOps
        /\ batch' = WBInsertOrUpdate(batch, k, v)
        /\ batch_ops' = Append(batch_ops, Put(k, v))
        /\ last_op' = "wb_insert_or_update" /\ last_key' = k
        /\ UNCHANGED batch_cleared
        /\ BatchFrame

\* WriteBatch::delete
BatchDelete ==
    \E k \in Keys :
        /\ Len(batch_ops) < MaxBatchOps
        /\ batch' = WBDelete(batch, k)
        /\ batch_ops' = Append(batch_ops, Del(k))
        /\ last_op' = "wb_delete" /\ last_key' = k
        /\ UNCHANGED batch_cleared
        /\ BatchFrame

\* WriteBatch::clear
BatchClear ==
    /\ batch' = WBClear(batch)
    /\ batch_ops' = <<>>
    /\ batch_cleared' = IF WBIsEmpty(batch) THEN "empty" ELSE "nonempty"
    /\ last_op' = "wb_clear" /\ last_key' = <<>>
    /\ BatchFrame

NextBatch == BatchInsertOrUpdate \/ BatchDelete \/ BatchClear

SpecBatch == InitBatch /\ [][NextBatch]_vars

\* ------------------------------------------------------------------------
\* Reads: DB::get and DB::scan on every memtable over TableKeys, the
\* memtable changed by what DB::write applies to it (lib.rs, memtable.rs)
\* ------------------------------------------------------------------------

\* Keys of which one is a prefix of another and one has a byte above 127
TableKeys == {<<1>>, <<1, 0>>, <<2>>, <<200>>}

TableValues == {<<7>>, <<8, 9>>}

\* The arguments of scan: the keys and the empty slice
ScanBounds == TableKeys \cup {<<>>}

InitTable ==
    /\ file = <<>> /\ fw_buf = <<>> /\ block_pos = 0
    /\ memtable = MemtableNew /\ db_state = "open" /\ pc = "idle"
    /\ pending = NoPending
    /\ last_op = "new" /\ last_key = <<>> /\ last_result = "Ok"
    /\ expect = ModelEmpty /\ unflushed = <<>> /\ live = ModelEmpty
    /\ prev = MemtableNew /\ prev_calls = 0 /\ calls = 0 /\ len_at_call = 0
    /\ opens = 1 /\ nops = 0 /\ all_ok = TRUE
    /\ iter = IterNew /\ rd_state = "unused" /\ builder = WriteBatchBuilderNew
    /\ got = <<>> /\ rd_at = -1
    /\ written = <<>> /\ last_payload = <<>> /\ last_emitted = <<>> /\ spans = <<>>
    /\ UnitInit

\* What the table actions leave alone
TableFrame ==
    UNCHANGED <<wvars, db_state, pc, pending, histvars, rdvars, loghist,
                batch, batch_ops, batch_cleared, corrupt, codec>>

\* An insert applied to the memtable (Memtable::insert_or_update)
TableInsert ==
    \E k \in TableKeys, v \in TableValues :
        /\ memtable' = MemtableInsertOrUpdate(memtable, k, v)
        /\ last_op' = "insert_or_update" /\ last_key' = k /\ last_result' = "Ok"
        /\ read_out' = NoRead
        /\ TableFrame

\* A delete applied to the memtable (Memtable::delete)
TableDelete ==
    \E k \in TableKeys :
        /\ memtable' = MemtableDelete(memtable, k)
        /\ last_op' = "delete" /\ last_key' = k /\ last_result' = "Ok"
        /\ read_out' = NoRead
        /\ TableFrame

\* DB::get
Get ==
    \E k \in TableKeys :
        LET r == DBGet(memtable, k)
        IN  /\ read_out' = [op |-> "get", start |-> k, end |-> <<>>,
                            st |-> r.st, items |-> r.items]
            /\ last_op' = "get" /\ last_key' = k /\ last_result' = r.st
            /\ UNCHANGED memtable
            /\ TableFrame

\* DB::scan and the iteration of what it returns
Scan ==
    \E start \in ScanBounds, end \in ScanBounds :
        LET r == DBScan(memtable, start, end)
        IN  /\ read_out' = [op |-> "scan", start |-> start, end |-> end,
                            st |-> r.st, items |-> r.items]
            /\ last_op' = "scan" /\ last_key' = <<>> /\ last_result' = r.st
            /\ UNCHANGED memtable
            /\ TableFrame

NextTable == TableInsert \/ TableDelete \/ Get \/ Scan

SpecTable == InitTable /\ [][NextTable]_vars

\* ------------------------------------------------------------------------
\* One record alone: serialized as LogWriter::append_record writes it, the
\* bytes possibly changed or cut, then LogRecord::from_serialized_bytes and
\* LogRecord::validate_crc (log_record.rs)
\* ------------------------------------------------------------------------

\* Payload lengths: none, the shortest, the longest whose record is no
\* longer than a u16 holds, the next one, and the longest a u16 size holds
RecordPayloadLens ==
    {0, 1, 2, U16_MAX - LOG_RECORD_HEADER_SIZE, U16_MAX - LOG_RECORD_HEADER_SIZE + 1,
     U16_MAX}

InitRecord ==
    /\ file = <<>> /\ fw_buf = <<>> /\ block_pos = 0
    /\ memtable = MemtableNew /\ db_state = "none" /\ pc = "idle"
    /\ pending = NoPending
    /\ last_op = "new" /\ last_key = <<>> /\ last_result = "Ok"
    /\ expect = ModelEmpty /\ unflushed = <<>> /\ live = ModelEmpty
    /\ prev = MemtableNew /\ prev_calls = 0 /\ calls = 0 /\ len_at_call = 0
    /\ opens = 0 /\ nops = 0 /\ all_ok = TRUE
    /\ iter = IterNew /\ rd_state = "unused" /\ builder = WriteBatchBuilderNew
    /\ got = <<>> /\ rd_at = -1
    /\ written = <<>> /\ last_payload = <<>> /\ last_emitted = <<>> /\ spans = <<>>
    /\ UnitInit

\* What the record actions leave alone
RecordFrame ==
    UNCHANGED <<wvars, dbvars, callvars, histvars, rdvars, loghist,
                batch, batch_ops, batch_cleared, read_out, corrupt>>

\* LogRecord::new and the bytes append_record writes for the record
Serialize ==
    \E t \in RT_None..RT_Full, n \in RecordPayloadLens :
        LET payload == Pattern(n, t)
        IN  /\ ~NewPanics(payload)
            /\ codec' = [NoCodec EXCEPT !.stage = "bytes", !.rtype = t,
                                        !.payload = payload,
                                        !.bytes = RecordBytes(LogRecordNew(t, payload))]
            /\ RecordFrame

\* The bytes change between the writer and the reader: the type byte
\* becomes one no RecordType has, or one byte of the crc changes, or the
\* bytes are cut to fewer than MIN_RECORD_SIZE
Tamper ==
    /\ codec.stage = "bytes" /\ codec.tamper = "none"
    /\ \/ \E b \in {RT_Full + 1, 255} :
            codec' = [codec EXCEPT !.tamper = "type",
                                   !.bytes = [@ EXCEPT ![TYPE_OFFSET + 1] = b]]
       \/ \E at \in {CRC_OFFSET, CRC_OFFSET + 3} :
            codec' = [codec EXCEPT !.tamper = "crc", !.bytes = Damaged(@, at + 1)]
       \/ \E n \in {0, 1, MIN_RECORD_SIZE - 1} :
            /\ n < Len(codec.bytes)
            /\ codec' = [codec EXCEPT !.tamper = "cut", !.bytes = Slice(@, 0, n)]
    /\ RecordFrame

\* LogRecord::from_serialized_bytes on the bytes, then validate_crc on the
\* record when there is one
Deserialize ==
    /\ codec.stage = "bytes"
    /\ \E d \in {from_serialized_bytes(codec.bytes)} :
         codec' = [codec EXCEPT !.stage = "decoded", !.st = d.st, !.err = d.err,
                                !.rec = d.rec,
                                !.crc = IF d.st = "Ok" THEN validate_crc(d.rec).st
                                        ELSE "none"]
    /\ RecordFrame

NextRecord == Serialize \/ Tamper \/ Deserialize

SpecRecord == InitRecord /\ [][NextRecord]_vars

\* ------------------------------------------------------------------------
\* Properties of the database (checked under Spec)
\* ------------------------------------------------------------------------

\* get(k) for every key of Keys is the same on the two tables
SameVisibility(m1, m2) == ModelOf(m1) = ModelOf(m2)

\* C1: after a sequence of successful insert_or_update, delete and write
\* calls, opening a new DB on the same path yields an instance, and its
\* get(k) equals the first instance's get(k) for every key.
C1_ReopenRecoversState ==
    (last_op = "reopen" /\ all_ok)
        => (db_state = "open" /\ SameVisibility(memtable, prev))

\* C3: in DB::write the log append, flush included, has completed before
\* any entry of the batch reaches the memtable, and a call that returns an
\* error leaves the memtable as it was.
C3_LogBeforeMemtable ==
    [][ /\ (memtable' # memtable /\ last_op' # "reopen")
            => /\ pc = "apply"
               /\ fw_buf = <<>>
               /\ Len(file) >= len_at_call + LOG_RECORD_HEADER_SIZE + Len(pending.wb)
        /\ (last_result' = "Io") => (memtable' = memtable) ]_vars

\* A write has returned Ok, its batch is in the file and it changed the table.
C3_Witness ==
    /\ pc = "idle" /\ last_op = "write" /\ last_result = "Ok"
    /\ calls = 2 /\ DOMAIN memtable # {}
    /\ Len(file) > len_at_call /\ fw_buf = <<>>

\* C4: between facade operations (after an open and after each successful
\* mutation) the memtable is the replay, in log order, of every batch whose
\* bytes are in the log file: never ahead of the log, never behind it.
\* expect is that replay.
C4_MemtableReflectsLog ==
    (db_state = "open" /\ pc = "idle")
        => (ModelOf(memtable) = expect /\ DOMAIN memtable \subseteq Keys)

\* C5: the DB behaves as a map: get(k) is the value of the most recent
\* insert of k when no later delete of k exists, absent otherwise; a key
\* never inserted is absent; a later insert overwrites the earlier value.
C5_OrderedMap ==
    (db_state = "open" /\ pc = "idle") => (ModelOf(memtable) = live)

\* A second insert of a key that already had another value has returned.
C5_Witness ==
    /\ db_state = "open" /\ pc = "idle" /\ calls = 2
    /\ last_op = "insert_or_update" /\ last_result = "Ok"
    /\ opens = 1 /\ DOMAIN memtable = {last_key} /\ memtable[last_key] = LongValue
    /\ Len(file) = 2 * (LOG_RECORD_HEADER_SIZE + HEADER_SIZE + 8 + Len(last_key))
                      + 1 + Len(LongValue)

\* C6: after delete(k), get(k) on the live DB is absent; and a DB recovered
\* from the log of inserts and deletes returns absent for the deleted keys
\* and keeps the others present.
C6_Tombstone ==
    /\ (db_state = "open" /\ pc = "idle" /\ last_op = "delete" /\ last_result = "Ok")
            => MemtableGet(memtable, last_key) = <<>>
    /\ (last_op = "reopen" /\ all_ok /\ prev_calls = 2)
            => /\ db_state = "open"
               /\ \A k \in Keys : (MemtableGet(memtable, k) = <<>>) <=> (expect[k] = <<>>)

\* C7: open, S1, reopen (writer attached in append mode), S2, reopen again
\* yields a DB whose get results are those of S1 followed by S2 on an empty
\* map.
C7_ExtendAfterReopen ==
    (last_op = "reopen" /\ all_ok /\ opens = 3 /\ prev_calls > 0 /\ nops = 2)
        => (db_state = "open" /\ ModelOf(memtable) = expect)

\* C8: load run a second time on the same file, into the table the first
\* run produced, leaves that table unchanged (two runs into fresh tables
\* are the same computation on the same bytes).
C8_RecoveryIdempotent ==
    (pc = "idle" /\ fw_buf = <<>> /\ Len(file) > 0)
        => LET r1 == load(file, MemtableNew)
               r2 == load(file, r1.memtable)
           IN  r2.st = r1.st /\ r2.memtable = r1.memtable

\* A log of two batches that load replays to a table with a key in it.
C8_Witness ==
    /\ pc = "idle" /\ fw_buf = <<>> /\ Len(file) > 0 /\ all_ok /\ prev_calls = 2
    /\ last_op = "reopen" /\ last_result = "Ok" /\ DOMAIN memtable # {}

\* ------------------------------------------------------------------------
\* Properties of the log (checked under SpecLog)
\* ------------------------------------------------------------------------

IsPrefix(s, t) == Len(s) <= Len(t) /\ s = SubSeq(t, 1, Len(s))

\* C2: payloads appended by a LogWriter opened in truncate mode and read
\* back by the LogReader iterator, fragments reassembled, come back
\* byte-identical and in order: the reading never fails, what has been read
\* so far is a prefix of what was written, and at the end of the log it is
\* all of it.
C2_LogRoundTrip ==
    all_ok
        => /\ rd_state \notin {"error", "panic"}
           /\ rd_state \in {"reading", "eof"} => IsPrefix(got, written)
           /\ rd_state = "eof" => got = written

\* The record types of one payload: Full | First Middle* Last
WellFormedTypes(e) ==
    /\ Len(e) >= 1
    /\ Len(e) = 1 => e[1].rtype = RT_Full
    /\ Len(e) > 1
        => /\ e[1].rtype = RT_First
           /\ e[Len(e)].rtype = RT_Last
           /\ \A i \in 2..(Len(e) - 1) : e[i].rtype = RT_Middle

RECURSIVE ConcatPayloads(_, _)
ConcatPayloads(e, i) ==
    IF i > Len(e) THEN <<>> ELSE e[i].payload \o ConcatPayloads(e, i + 1)

\* The type byte and the payload of an emitted record as they are in the file
InFile(e) ==
    /\ e.offset + LOG_RECORD_HEADER_SIZE + Len(e.payload) <= Len(file)
    /\ file[e.offset + TYPE_OFFSET + 1] = e.rtype
    /\ U16FromBe(Slice(file, e.offset + SIZE_OFFSET, e.offset + TYPE_OFFSET))
           = Len(e.payload)
    /\ Slice(file, e.offset + PAYLOAD_OFFSET,
             e.offset + PAYLOAD_OFFSET + Len(e.payload)) = e.payload

\* C9: for every successful LogWriter::append(payload) the record types
\* written for the payload form a string of Full | First Middle* Last, and
\* the records' payloads, concatenated, are the payload.
C9_Fragmentation ==
    (last_op = "append" /\ last_result = "Ok")
        => /\ WellFormedTypes(last_emitted)
           /\ ConcatPayloads(last_emitted, 1) = last_payload
           /\ \A i \in 1..Len(last_emitted) : InFile(last_emitted[i])

\* A payload written as First, Middle, Last after an earlier payload
C9_Witness ==
    /\ last_op = "append" /\ last_result = "Ok" /\ Len(written) >= 2
    /\ Len(last_emitted) = 3 /\ last_emitted[2].rtype = RT_Middle

\* C10: after successful appends to a writer opened in truncate mode no
\* record straddles a block boundary: its first header byte and its last
\* payload byte are in the same block.
C10_BlockAlignment ==
    all_ok
        => \A i \in 1..Len(spans) :
              spans[i].offset \div DEFAULT_BLOCK_SIZE
                  = (spans[i].offset + spans[i].len - 1) \div DEFAULT_BLOCK_SIZE

\* The bytes between the end of the record before spans[i] (the start of the
\* file for the first record) and spans[i]
PadStart(i) == IF i = 1 THEN 0 ELSE spans[i - 1].offset + spans[i - 1].len

PadLen(i) == spans[i].offset - PadStart(i)

\* What is left of the block of the file that offset o is in
LeftInBlock(o) == DEFAULT_BLOCK_SIZE - (o % DEFAULT_BLOCK_SIZE)

\* C11: after successful appends every padding byte is zero and every run
\* of padding is shorter than MIN_RECORD_SIZE; there is a run before a
\* record exactly where fewer than MIN_RECORD_SIZE bytes are left of the
\* current block of the file, the run fills the block and the record after
\* it starts at a block boundary.
C11_Padding ==
    all_ok
        => \A i \in 1..Len(spans) :
              /\ PadLen(i) < MIN_RECORD_SIZE
              /\ \A j \in (PadStart(i) + 1)..spans[i].offset : file[j] = 0
              /\ (PadLen(i) > 0) <=> (LeftInBlock(PadStart(i)) < MIN_RECORD_SIZE)
              /\ PadLen(i) > 0
                  => /\ PadLen(i) = LeftInBlock(PadStart(i))
                     /\ spans[i].offset % DEFAULT_BLOCK_SIZE = 0

\* C12: LogWriter::append of an empty payload returns the value error and
\* leaves the file, the buffer and block_pos as they were, whatever the
\* state of the writer.
C12_EmptyPayloadRejected ==
    [][(last_op' = "append" /\ nops' = nops + 1 /\ last_payload' = <<>>)
          => (last_result' = "ValueError" /\ UNCHANGED wvars)]_vars

\* An empty payload refused by a writer that holds buffered bytes after a
\* failed flush and whose block_pos is not 0
C12_Witness ==
    /\ last_op = "append" /\ last_payload = <<>> /\ last_result = "ValueError"
    /\ fw_buf # <<>> /\ block_pos > 0 /\ file # <<>>

\* C19: when LogWriter::append returns Ok nothing is left in the buffer and
\* the records written for the payload are in the file, the last of them
\* ending the file.
C19_FlushOnReturn ==
    (last_op = "append" /\ last_result = "Ok")
        => /\ fw_buf = <<>>
           /\ \A i \in 1..Len(last_emitted) : InFile(last_emitted[i])
           /\ LET e == last_emitted[Len(last_emitted)]
              IN  Len(file) = e.offset + LOG_RECORD_HEADER_SIZE + Len(e.payload)

\* An append that returns Ok after an append that failed to flush: the
\* bytes of both are in the file
C19_Witness ==
    /\ last_op = "append" /\ last_result = "Ok" /\ ~all_ok
    /\ fw_buf = <<>> /\ Len(last_emitted) >= 2
    /\ last_emitted[1].offset > len_at_call

\* ------------------------------------------------------------------------
\* Properties of the facade's errors (checked under Spec)
\* ------------------------------------------------------------------------

\* C18: insert_or_update, delete and write fail only with an Io error: the
\* payload handed to the log writer always holds the header of the batch,
\* so the value error of an empty payload is never returned.
C18_MutationsFailOnlyOnIo ==
    /\ last_op \in {"insert_or_update", "delete", "write"}
        => last_result \in {"Ok", "Io", "pending"}
    /\ pc = "apply" => Len(WBAsBytes(pending.wb)) >= HEADER_SIZE

\* DB::write of a batch without operations has returned Ok
C18_Witness ==
    /\ last_op = "write" /\ last_result = "Ok" /\ calls >= 1
    /\ Len(file) = len_at_call + LOG_RECORD_HEADER_SIZE + HEADER_SIZE

\* ------------------------------------------------------------------------
\* Properties of the write batch (checked under SpecBatch)
\* ------------------------------------------------------------------------

\* What the iterator is to yield for the operations put in the batch: the
\* key with Some(value) for an insert, the key with None for a delete
Yielded(ops) == [i \in 1..Len(ops) |-> [key |-> ops[i].key, value |-> ops[i].value]]

\* No insert of the operations has an empty value
ValuesNonEmpty(ops) == \A i \in 1..Len(ops) : ops[i].value # << <<>> >>

\* C13 as stated: whatever the values, iterating the batch yields, in order,
\* (key, Some(value)) for every insert_or_update(key, value) and (key, None)
\* for every delete(key), and count() is the number of operations.
C13_BatchRoundTrip ==
    /\ WBIter(batch) = [st |-> "Ok", entries |-> Yielded(batch_ops)]
    /\ WBCount(batch) = Len(batch_ops)

\* C13 with values that are not empty: iterating the batch yields, in
\* order, (key, Some(value)) for every insert_or_update(key, value) and
\* (key, None) for every delete(key), and count() is the number of
\* operations.
C13_BatchRoundTripNonEmpty ==
    ValuesNonEmpty(batch_ops) => C13_BatchRoundTrip

\* An insert, a delete and an insert of another value, iterated
C13_Witness ==
    /\ Len(batch_ops) = 3 /\ ValuesNonEmpty(batch_ops)
    /\ batch_ops[1].value # <<>> /\ batch_ops[2].value = <<>>
    /\ batch_ops[3].value # <<>> /\ batch_ops[3].value # batch_ops[1].value
    /\ Len(WBIter(batch).entries) = 3

\* The encoding of one operation: key length, key, value length, value
EntryBytes(op) ==
    LET value == IF op.value = <<>> THEN <<>> ELSE op.value[1]
    IN  U32ToBe(Len(op.key)) \o op.key \o U32ToBe(Len(value)) \o value

RECURSIVE EntriesBytes(_, _)
EntriesBytes(ops, i) ==
    IF i > Len(ops) THEN <<>> ELSE EntryBytes(ops[i]) \o EntriesBytes(ops, i + 1)

\* The length of the encoding of one operation
EntryLen(op) == 8 + Len(op.key) + (IF op.value = <<>> THEN 0 ELSE Len(op.value[1]))

RECURSIVE EntriesLen(_, _)
EntriesLen(ops, i) ==
    IF i > Len(ops) THEN 0 ELSE EntryLen(ops[i]) + EntriesLen(ops, i + 1)

\* C14: after any sequence of new, insert_or_update, delete and clear the
\* bytes of the batch are the header (the count, big-endian, in bytes 0..4
\* and zeros in bytes 4..16) followed by complete entries only; count() is
\* the number of entries and len() is the header size plus the lengths of
\* the entries.
C14_BatchWellFormed ==
    /\ Len(batch) >= HEADER_SIZE
    /\ Slice(batch, COUNT_OFFSET, COUNT_OFFSET + 4) = U32ToBe(Len(batch_ops))
    /\ \A i \in 5..HEADER_SIZE : batch[i] = 0
    /\ SliceFrom(batch, HEADER_SIZE) = EntriesBytes(batch_ops, 1)
    /\ WBCount(batch) = Len(batch_ops)
    /\ WBLen(batch) = HEADER_SIZE + EntriesLen(batch_ops, 1)

\* A batch that was cleared and then given an insert and a delete
C14_Witness ==
    /\ batch_cleared = "nonempty" /\ Len(batch_ops) = 2
    /\ batch_ops[1].value # <<>> /\ batch_ops[2].value = <<>>
    /\ WBLen(batch) > HEADER_SIZE + 16

\* C15: clear leaves the batch with only the header: count() is 0, len() is
\* the header size, is_empty() is true and the iterator yields nothing; the
\* operations that follow act on it as on a new batch.
C15_ClearResets ==
    /\ last_op = "wb_clear"
        => /\ WBCount(batch) = 0 /\ WBLen(batch) = HEADER_SIZE /\ WBIsEmpty(batch)
           /\ WBIter(batch) = [st |-> "Ok", entries |-> <<>>]
           /\ batch = WriteBatchNew
    /\ batch_cleared # "never" => batch = BuildBatch(WriteBatchNew, batch_ops, 1)

\* A batch that held operations has been cleared
C15_Witness ==
    /\ last_op = "wb_clear" /\ batch_cleared = "nonempty"
    /\ batch = WriteBatchNew /\ batch_ops = <<>>

\* ------------------------------------------------------------------------
\* Properties of the reads (checked under SpecTable)
\* ------------------------------------------------------------------------

\* a is before b in the lexicographic order of unsigned bytes: at the first
\* position where they differ a has the smaller byte, or a is a proper
\* prefix of b
LexLess(a, b) ==
    \E i \in 1..Len(b) :
        /\ \A j \in 1..(i - 1) : j <= Len(a) /\ a[j] = b[j]
        /\ i <= Len(a) => a[i] < b[i]

LexLeq(a, b) == a = b \/ LexLess(a, b)

\* The entries of the memtable with start <= key < end
InRange(start, end) ==
    {k \in DOMAIN memtable : LexLeq(start, k) /\ LexLess(k, end)}

\* What the last scan yielded is the entries in [start, end), each once, in
\* ascending order of the keys
ScanYieldsRange ==
    LET items == read_out.items
    IN  /\ read_out.st = "Ok"
        /\ {items[i].key : i \in 1..Len(items)} = InRange(read_out.start, read_out.end)
        /\ \A i \in 1..Len(items) : items[i].value = memtable[items[i].key]
        /\ \A i \in 1..(Len(items) - 1) : LexLess(items[i].key, items[i + 1].key)

\* C16: scan(start, end) yields exactly the entries whose key k satisfies
\* start <= k < end in the lexicographic order of unsigned bytes, each once
\* and in ascending order of the keys; the entry with the key end is not
\* yielded.
C16_ScanRange ==
    last_op = "scan" => ScanYieldsRange

\* The part of C16 that the code satisfies: scans with start <= end
C16_ScanRangeOrdered ==
    (last_op = "scan" /\ LexLeq(read_out.start, read_out.end)) => ScanYieldsRange

\* C17: get and scan return a result for every memtable and every argument,
\* a scan whose start is equal to or greater than its end included.
C17_ReadsNeverFail ==
    read_out.op \in {"get", "scan"} => read_out.st = "Ok"

\* ------------------------------------------------------------------------
\* Properties of the recovery of a damaged log (checked under SpecDamaged)
\* ------------------------------------------------------------------------

\* The record whose byte was changed is read by load: the records before it
\* are read, which they are in a file that from_serialized_bytes can take
\* whole and that has no padding before the record.
DamagedRecordIsRead ==
    /\ corrupt # NoCorrupt
    /\ Len(file) <= U16_MAX
    /\ \A j \in 1..corrupt.rec : PadLen(j) = 0

\* C20: when a record read during load has a stored crc that is not the
\* CRC32C of its payload, load returns InvalidCrc(stored, computed), the
\* memtable holds the batches before the record's batch and not that batch,
\* and DB::new returns the error and no instance.
C20_CrcFailureAborts ==
    DamagedRecordIsRead
        => LET r == load(file, MemtableNew)
               off == corrupt.offset
               size == spans[corrupt.rec].len - LOG_RECORD_HEADER_SIZE
               stored == Slice(file, off + CRC_OFFSET, off + CRC_OFFSET + 4)
               computed == crc32c(Slice(file, off + PAYLOAD_OFFSET,
                                            off + PAYLOAD_OFFSET + size))
           IN  /\ stored # computed
               /\ r.st = "Err" /\ r.err = <<"InvalidCrc", stored, computed>>
               /\ ModelOf(r.memtable) = spans[corrupt.rec].before
               /\ last_op = "reopen" /\ last_result = "Err" /\ db_state = "none"

\* The payload of the record of a second batch changed; recovery has
\* applied the first batch, an insert, before it reads the record
C20_Witness ==
    /\ DamagedRecordIsRead /\ corrupt.rec = 2 /\ corrupt.at = PAYLOAD_OFFSET
    /\ spans[2].before # ModelEmpty
    /\ ModelOf(load(file, MemtableNew).memtable) # ModelEmpty
    /\ last_result = "Err" /\ db_state = "none"

\* ------------------------------------------------------------------------
\* Properties of one record (checked under SpecRecord)
\* ------------------------------------------------------------------------

\* C21: a record of any type with a payload of at most U16_MAX bytes, the
\* empty one included, serialized and decoded unchanged, comes back with
\* its type, its payload, the payload's length as size, and a crc that
\* validate_crc accepts.
C21_RecordRoundTrip ==
    (codec.stage = "decoded" /\ codec.tamper = "none"
        /\ Len(codec.payload) <= U16_MAX)
    => /\ codec.st = "Ok"
       /\ codec.rec.rtype = codec.rtype
       /\ codec.rec.size = Len(codec.payload)
       /\ codec.rec.payload = codec.payload
       /\ codec.crc = "Ok"

\* The round trip for the payloads whose record is between MIN_RECORD_SIZE
\* and U16_MAX bytes long
RoundTripWithinU16 ==
    (codec.stage = "decoded" /\ codec.tamper = "none"
        /\ Len(codec.bytes) \in MIN_RECORD_SIZE..U16_MAX)
    => /\ codec.st = "Ok"
       /\ codec.rec.rtype = codec.rtype
       /\ codec.rec.size = Len(codec.payload)
       /\ codec.rec.payload = codec.payload
       /\ codec.crc = "Ok"

\* C22: bytes shorter than MIN_RECORD_SIZE fail to decode with
\* WalRecordTooSmall(length, MIN_RECORD_SIZE); bytes at least that long with a
\* type byte above RT_Full fail with InvalidRecordType(byte); bytes with a
\* wrong crc and a valid type decode, and only validate_crc rejects them.
C22_DecodeErrors ==
    codec.stage = "decoded"
    => /\ Len(codec.bytes) < MIN_RECORD_SIZE
            => /\ codec.st = "Err"
               /\ codec.err = <<"WalRecordTooSmall", Len(codec.bytes), MIN_RECORD_SIZE>>
       /\ (Len(codec.bytes) >= MIN_RECORD_SIZE /\ codec.bytes[TYPE_OFFSET + 1] > RT_Full)
            => /\ codec.st = "Err"
               /\ codec.err = <<"InvalidRecordType", codec.bytes[TYPE_OFFSET + 1]>>
       /\ (Len(codec.bytes) >= MIN_RECORD_SIZE /\ codec.tamper = "crc")
            => /\ codec.st = "Ok"
               /\ codec.crc = "Err"

\* The decode errors for bytes of at most U16_MAX bytes
DecodeErrorsWithinU16 ==
    (codec.stage = "decoded" /\ Len(codec.bytes) <= U16_MAX) => C22_DecodeErrors

\* ------------------------------------------------------------------------
\* Properties of empty values (checked under SpecEmptyValue)
\* ------------------------------------------------------------------------

\* The abstract map binds k to the empty value
BoundToEmpty(map, k) == map[k] = << <<>> >>

\* The batch DB::insert_or_update(k, empty) builds has the bytes of the
\* batch DB::delete(k) builds and iterates as the single entry (k, None)
EmptyInsertIsDeleteInBatch ==
    (pc = "apply" /\ pending.ops = <<Put(last_key, <<>>)>>)
    => /\ WBAsBytes(pending.wb) = WBAsBytes(WBDelete(WriteBatchNew, last_key))
       /\ WBIter(WBAsBytes(pending.wb))
            = [st |-> "Ok", entries |-> <<[key |-> last_key, value |-> <<>>]>>]

\* A call that inserted the empty value under k and returned Ok leaves k
\* absent from get
EmptyInsertIsDeleteLive ==
    (db_state = "open" /\ pc = "idle" /\ last_op = "insert_or_update"
        /\ last_result = "Ok" /\ BoundToEmpty(live, last_key))
    => MemtableGet(memtable, last_key) = <<>>

\* C23: insert_or_update(k, empty) puts in the batch the bytes delete(k)
\* puts, the batch iterates as (k, None), and k is absent from get on the
\* instance that made the call and on the instance recovered from its log.
C23_EmptyValueIsDelete ==
    /\ EmptyInsertIsDeleteInBatch
    /\ EmptyInsertIsDeleteLive
    /\ (last_op = "reopen" /\ all_ok /\ \E k \in Keys : BoundToEmpty(expect, k))
            => /\ db_state = "open"
               /\ \A k \in Keys : BoundToEmpty(expect, k) => MemtableGet(memtable, k) = <<>>

\* The same with the recovered half only for the recoveries that return a
\* database
EmptyValueIsDeleteWhereRecovered ==
    /\ EmptyInsertIsDeleteInBatch
    /\ EmptyInsertIsDeleteLive
    /\ (last_op = "reopen" /\ all_ok /\ db_state = "open")
            => \A k \in Keys : BoundToEmpty(expect, k) => MemtableGet(memtable, k) = <<>>

\* ------------------------------------------------------------------------
\* Properties of the log writer and reader (checked under SpecLog)
\* ------------------------------------------------------------------------

\* C26: after appends that all returned Ok on a writer opened in truncate
\* mode, block_pos is the length of the file modulo the block size, and so
\* below the block size.
C26_BlockPosTracksFile ==
    (rd_state = "writing" /\ all_ok /\ nops >= 1)
    => /\ block_pos = Len(file) % DEFAULT_BLOCK_SIZE
       /\ block_pos < DEFAULT_BLOCK_SIZE

\* The largest payload of one record
MaxFragment == DEFAULT_BLOCK_SIZE - LOG_RECORD_HEADER_SIZE

\* Records in which a payload of len bytes is written
FragmentCount(len) == (len + MaxFragment - 1) \div MaxFragment

\* The payload bytes the last of these records carries
LastFragment(len) == len - (FragmentCount(len) - 1) * MaxFragment

\* C27: an append that starts with block_pos = 0 and returns Ok has written
\* its payload of L >= 1 bytes as ceil(L / (BLOCK_SIZE - 7)) records, each
\* but the last with BLOCK_SIZE - 7 payload bytes and the last with the
\* rest r, and when r < BLOCK_SIZE - 7 it leaves block_pos = 7 + r.
C27_FragmentSizes ==
    [][(block_pos = 0 /\ last_op' = "append" /\ nops' = nops + 1
            /\ last_result' = "Ok")
        => LET len == Len(last_payload')
               e == last_emitted'
           IN  /\ len >= 1
               /\ Len(e) = FragmentCount(len)
               /\ \A i \in 1..(Len(e) - 1) : Len(e[i].payload) = MaxFragment
               /\ Len(e[Len(e)].payload) = LastFragment(len)
               /\ LastFragment(len) < MaxFragment
                    => block_pos' = LOG_RECORD_HEADER_SIZE + LastFragment(len)]_vars

\* A payload of two blocks was written from block_pos = 0 as First, Middle
\* and Last, the Last of 14 bytes, and block_pos is 21
C27_Witness ==
    /\ last_op = "append" /\ last_result = "Ok" /\ nops = 1
    /\ Len(last_payload) = 2 * DEFAULT_BLOCK_SIZE
    /\ [i \in 1..Len(last_emitted) |-> last_emitted[i].rtype]
            = <<RT_First, RT_Middle, RT_Last>>
    /\ Len(last_emitted[3].payload) = 2 * LOG_RECORD_HEADER_SIZE
    /\ block_pos = 3 * LOG_RECORD_HEADER_SIZE

\* C28: whatever the writer went through, failed calls included, every
\* record an append writes has a payload of 1 to BLOCK_SIZE - 7 bytes, which
\* a u16 holds; block_pos never exceeds the block size and no subtraction
\* in append overflows.
C28_RecordSizeBounds ==
    rd_state = "writing"
    => /\ \A i \in 1..Len(last_emitted) :
            /\ Len(last_emitted[i].payload) \in 1..MaxFragment
            /\ Len(last_emitted[i].payload) <= U16_MAX
       /\ block_pos <= DEFAULT_BLOCK_SIZE
       /\ last_result # "Panic"

\* After a failed call, an append returned Ok and wrote three records, the
\* first with the largest payload a record holds
C28_Witness ==
    /\ rd_state = "writing" /\ ~all_ok
    /\ last_op = "append" /\ last_result = "Ok"
    /\ Len(last_emitted) = 3
    /\ Len(last_emitted[1].payload) = MaxFragment

\* C24: a log written by appends that all returned Ok and longer than the
\* reader's buffer is read back whole: no next() fails or aborts, the
\* payloads reassembled are at every moment the first of those written, and
\* at the end all of them.
C24_StreamsAcrossRefills ==
    (all_ok /\ Len(file) > ReaderCapacity /\ last_op = "next")
    => /\ rd_state \notin {"error", "panic"}
       /\ IsPrefix(got, written)
       /\ rd_state = "eof" => got = written

\* C25: next() never decodes at an offset from which fewer than
\* MIN_RECORD_SIZE bytes are left of the block: it has skipped to the next
\* block boundary first.
C25_ReaderSkipsPadding ==
    (last_op = "next" /\ rd_at # -1) => LeftInBlock(rd_at) >= MIN_RECORD_SIZE

\* Bytes of the file after the reader's cursor
Unread == Len(file) - Cursor(iter)

\* The iterator can be called: it was created and no call on it aborted
\* (after an error of the consumer of its records it still can)
CanCallNext == rd_state \in {"reading", "eof", "error"}

\* A next() made now returns None exactly when fewer than MIN_RECORD_SIZE
\* bytes of the file are unread, the empty file included
NoneExactlyAtEndOfLog ==
    CanCallNext
    => ((IterNext(file, iter).kind = "None") <=> (Unread < MIN_RECORD_SIZE))

\* C29: next() returns None exactly when fewer than MIN_RECORD_SIZE bytes are
\* unread, on an empty file at the first call, and on a file of complete
\* records only when the records yielded before are all those written.
C29_CleanEndOfLog ==
    CanCallNext
    => /\ (IterNext(file, iter).kind = "None") <=> (Unread < MIN_RECORD_SIZE)
       /\ (all_ok /\ IterNext(file, iter).kind = "None") => got = written

MaxRecords == 3

\* A batch of two entries, written as three fragments: its header, its
\* first entry, its second entry
SplitImage ==
    WBInsertOrUpdate(WBInsertOrUpdate(WriteBatchNew, <<1>>, <<9>>), <<2, 3>>, <<9>>)

\* A batch of one entry, written as one record
FullImage == WBInsertOrUpdate(WriteBatchNew, <<1>>, <<8>>)

\* The records a file is made of; the record of type None is what seven
\* bytes of zero padding decode to.
RecordChoices ==
    { [rtype |-> RT_None, payload |-> <<>>],
      [rtype |-> RT_First, payload |-> Slice(SplitImage, 0, HEADER_SIZE)],
      [rtype |-> RT_Middle, payload |-> Slice(SplitImage, HEADER_SIZE, HEADER_SIZE + 10)],
      [rtype |-> RT_Last, payload |-> SliceFrom(SplitImage, HEADER_SIZE + 10)],
      [rtype |-> RT_Full, payload |-> FullImage] }

\* One more record at the end of the file: LogRecord::new, and the bytes
\* append_record writes for it; bad changes the last byte of its crc.
PutRecord ==
    \E c \in RecordChoices, bad \in BOOLEAN :
        LET bytes == RecordBytes(LogRecordNew(c.rtype, c.payload))
        IN  /\ rd_state = "writing" /\ nops < MaxRecords
            /\ bad => \A i \in 1..Len(last_emitted) : last_emitted[i].ok
            /\ file' = file \o (IF bad THEN Damaged(bytes, CRC_OFFSET + 4) ELSE bytes)
            /\ last_emitted' = Append(last_emitted,
                                      [rtype |-> c.rtype, payload |-> c.payload,
                                       offset |-> Len(file), ok |-> ~bad])
            /\ nops' = nops + 1
            /\ last_op' = "put" /\ last_result' = "Ok"
            /\ UNCHANGED <<fw_buf, block_pos, dbvars, last_key, expect, unflushed, live,
                           prev, prev_calls, calls, len_at_call, opens, all_ok>>
            /\ UNCHANGED <<rdvars, written, last_payload, spans, unitvars>>

\* Iter::next and WriteBatchBuilder::accumulate_record of the record it
\* yields; the builder is left as it is after the call.
Accumulate ==
    \E n \in {IterNext(file, iter)} :
        LET a == accumulate_record(builder, n.rec)
        IN  /\ rd_state = "reading"
            /\ last_op' = "accumulate"
            /\ iter' = n.it
            /\ rd_state' = (CASE n.kind = "None" -> "eof"
                              [] n.kind = "Panic" -> "panic"
                              [] n.kind = "Err" -> "error"
                              [] OTHER -> IF a.st = "Ok" THEN "reading"
                                          ELSE IF a.st = "Err" THEN "error"
                                          ELSE "panic")
            /\ last_result' = (CASE n.kind = "None" -> "None"
                                 [] n.kind = "Panic" -> "Panic"
                                 [] n.kind = "Err" -> "Err"
                                 [] OTHER -> a.st)
            /\ builder' = (IF n.kind = "Some" /\ a.st = "Ok" THEN a.b ELSE builder)
            /\ rd_at' = (IF n.kind = "None" THEN -1
                         ELSE IF n.kind = "Some" THEN Cursor(n.it) - RecLen(n.rec)
                         ELSE Cursor(n.it))
            /\ UNCHANGED <<wvars, dbvars, last_key, histvars, got, loghist, unitvars>>

\* WriteBatchBuilder::get_write_batch and WriteBatchBuilder::consume on a
\* builder that is ready
Consume ==
    /\ rd_state = "reading" /\ BuilderIsReady(builder)
    /\ got' = Append(got, builder.entries)
    /\ builder' = BuilderConsume(builder)
    /\ last_op' = "consume" /\ last_result' = "Ok"
    /\ UNCHANGED <<wvars, dbvars, last_key, histvars, iter, rd_state, rd_at,
                   loghist, unitvars>>

\* wal_recovery::load of the file into an empty memtable; the memtable is
\* kept as load left it, whatever load returned.
Recover ==
    \E r \in {load(file, MemtableNew)} :
        /\ rd_state = "writing" /\ nops > 0
        /\ rd_state' = "loaded"
        /\ memtable' = r.memtable
        /\ last_op' = "load" /\ last_result' = r.st
        /\ UNCHANGED <<wvars, db_state, pc, pending, last_key, histvars, iter,
                       builder, got, rd_at, loghist, unitvars>>

NextRecovery == PutRecord \/ ToIter \/ Accumulate \/ Consume \/ Recover

SpecRecovery == InitLog /\ [][NextRecovery]_vars

\* The record the next call of Iter::next yields, when it yields one.
Upcoming == IterNext(file, iter)

\* The reader is positioned at a record of type None: the next call of
\* Iter::next yields a record, and its type byte is 0.
AtNoneRecord ==
    /\ rd_state = "reading"
    /\ Upcoming.kind = "Some"
    /\ Upcoming.rec.rtype = RT_None

\* C31: a record of type None met during recovery is a logic error.  At
\* every position of the reader where the next record has type None,
\* WriteBatchBuilder::accumulate_record fails and leaves the builder as it
\* was, and wal_recovery::load continued from that position fails and
\* leaves the memtable as it was: the record is neither applied, nor
\* skipped, nor taken as data.
C31_NoneIsLogicError ==
    AtNoneRecord =>
        LET a == accumulate_record(builder, Upcoming.rec)
            l == LoadLoop(file, iter, builder.entries, memtable)
        IN  /\ a.st \in {"Err", "Panic"}
            /\ a.b = builder
            /\ l.st \in {"Err", "Panic"}
            /\ l.memtable = memtable

\* The reader stands at a record of type None whose crc is valid, with
\* fragments of a batch accumulated before it.
C31_Witness ==
    /\ AtNoneRecord
    /\ validate_crc(Upcoming.rec).st = "Ok"
    /\ builder.entries # <<>>

\* The reader is positioned at a record with a valid crc and a type other
\* than None: accumulate_record takes it.
AtAcceptedRecord ==
    /\ rd_state = "reading"
    /\ Upcoming.kind = "Some"
    /\ Upcoming.rec.rtype # RT_None
    /\ validate_crc(Upcoming.rec).st = "Ok"

\* C32: from every state of the builder, one with a completed batch that
\* was not consumed included, is_ready() after accumulate_record of a First
\* or Middle record is false and after a Last or Full record is true.
C32_ReadyFlag ==
    AtAcceptedRecord =>
        (BuilderIsReady(accumulate_record(builder, Upcoming.rec).b)
            <=> Upcoming.rec.rtype \in {RT_Last, RT_Full})

\* The builder's state machine over the types of the first n records of
\* the file: "closed" (no fragment sequence is open), "open" (after First
\* or Middle) or "malformed" (a transition other than closed -Full->
\* closed, closed -First-> open, open -Middle-> open, open -Last-> closed).
RECURSIVE SequenceState(_, _)
SequenceState(recs, n) ==
    IF n = 0 THEN "closed"
    ELSE LET before == SequenceState(recs, n - 1)
             t == recs[n].rtype
         IN  IF before = "closed"
             THEN IF t = RT_Full THEN "closed"
                  ELSE IF t = RT_First THEN "open" ELSE "malformed"
             ELSE IF before = "open"
             THEN IF t = RT_Middle THEN "open"
                  ELSE IF t = RT_Last THEN "closed" ELSE "malformed"
             ELSE "malformed"

\* The batch images that the first n records complete, in order, as long as
\* the sequence is not malformed: the payload of a Full record, or the
\* payloads from a First to its Last, concatenated.
RECURSIVE Assembled(_, _, _, _)
Assembled(recs, n, open, done) ==
    IF n > Len(recs) \/ SequenceState(recs, n) = "malformed" THEN done
    ELSE IF recs[n].rtype \in {RT_Full, RT_Last}
    THEN Assembled(recs, n + 1, <<>>, Append(done, open \o recs[n].payload))
    ELSE Assembled(recs, n + 1, open \o recs[n].payload, done)

\* The memtable after the entries of the batch images, applied in order
RECURSIVE AppliedImages(_, _, _)
AppliedImages(m, images, i) ==
    IF i > Len(images) THEN m
    ELSE AppliedImages(ApplyEntries(m, WBIter(images[i]).entries, 1), images, i + 1)

\* Every record of the file has the crc of its payload, and none has the
\* type None.
IntactFragments ==
    \A i \in 1..Len(last_emitted) :
        last_emitted[i].ok /\ last_emitted[i].rtype # RT_None

\* C33: load of a file whose record types leave (Full | First Middle*
\* Last)* -- a Middle or Last with no First open, a Full or First while a
\* sequence is open -- returns an error, and the memtable holds the batches
\* completed before the malformed record and nothing else.
C33_MalformedRejected ==
    (/\ last_op = "load"
     /\ IntactFragments
     /\ SequenceState(last_emitted, Len(last_emitted)) = "malformed")
    => /\ last_result = "Err"
       /\ memtable = AppliedImages(MemtableNew, Assembled(last_emitted, 1, <<>>, <<>>), 1)

\* The records of the file before the first one with a damaged crc
IntactPrefix ==
    LET bad == {i \in 1..Len(last_emitted) : ~last_emitted[i].ok}
    IN  IF bad = {} THEN last_emitted
        ELSE SubSeq(last_emitted, 1, (CHOOSE i \in bad : \A j \in bad : i <= j) - 1)

\* The batches all of whose fragments come before any damaged record
IntactBatches == Assembled(IntactPrefix, 1, <<>>, <<>>)

\* load has run on a file of well-formed fragment sequences, the last of
\* which may be open at the end of the file.
LoadedWellFormed ==
    /\ last_op = "load"
    /\ \A i \in 1..Len(last_emitted) : last_emitted[i].rtype # RT_None
    /\ SequenceState(last_emitted, Len(last_emitted)) # "malformed"

\* C34: after load the memtable holds the entries of the first j batches,
\* each applied whole, for some j: a batch is applied only when its Full or
\* Last record was read and every fragment of it passed the crc check.
\* When load returns Ok, j counts every completed batch, and an open
\* sequence at the end of the file adds nothing; when it returns an error,
\* j counts the batches completed before the damaged record.
C34_BatchAtomicity ==
    LoadedWellFormed =>
        /\ \E j \in 0..Len(IntactBatches) :
               memtable = AppliedImages(MemtableNew, SubSeq(IntactBatches, 1, j), 1)
        /\ last_result = "Ok" =>
               /\ IntactPrefix = last_emitted
               /\ memtable = AppliedImages(MemtableNew, IntactBatches, 1)
        /\ last_result = "Err" =>
               /\ IntactPrefix # last_emitted
               /\ memtable = AppliedImages(MemtableNew, IntactBatches, 1)

\* load has returned Ok on a file that ends inside a fragment sequence,
\* after a complete batch.
C34_Witness ==
    /\ LoadedWellFormed
    /\ last_result = "Ok"
    /\ SequenceState(last_emitted, Len(last_emitted)) = "open"
    /\ Len(IntactBatches) = 1
    /\ memtable # MemtableNew

\* The file ends inside the record e: after its first byte and before its
\* last one.
EndsInside(len, e) ==
    /\ e.offset < len
    /\ len < e.offset + LOG_RECORD_HEADER_SIZE + Len(e.payload)

\* C35: no partial record is committed.  When append_record has returned for
\* a record of an append, and when the append has returned, with Ok or with
\* an error, the bytes in the file do not end inside that record: they end
\* before its header or after its payload.
C35_NoPartialRecord ==
    last_op = "append" =>
        \A i \in 1..Len(last_emitted) :
            /\ ~EndsInside(last_emitted[i].file_len, last_emitted[i])
            /\ ~EndsInside(Len(file), last_emitted[i])

\* ------------------------------------------------------------------------
\* Recovery of a torn log: the database is used, the instance is dropped,
\* the file loses its end from some byte of its last record on, and DB::new
\* is called on it (lib.rs, wal_recovery.rs).  A cut inside an earlier
\* record is a cut inside the last record of the shorter log that the
\* calls before it wrote.
\* ------------------------------------------------------------------------

\* The instance is dropped with nothing buffered, the file is cut after
\* the first keep bytes of its last record, and DB::new is called on the
\* same path.
ReopenTorn ==
    /\ db_state = "open" /\ pc = "idle"
    /\ opens < MaxOpens
    /\ all_ok /\ fw_buf = <<>> /\ corrupt = NoCorrupt /\ spans # <<>>
    /\ \E keep \in 0..(spans[Len(spans)].len - 1) :
         \E f \in {SubSeq(file, 1, spans[Len(spans)].offset + keep)} :
         \E r \in {DBNew(f)} :
            LET w == LogWriterNew(f, FALSE)
            IN  /\ corrupt' = [rec |-> Len(spans), offset |-> spans[Len(spans)].offset,
                               at |-> keep]
                /\ file' = w.file /\ fw_buf' = w.buf /\ block_pos' = w.block_pos
                /\ db_state' = IF r.st = "Ok" THEN "open" ELSE "none"
                /\ memtable' = IF r.st = "Ok" THEN r.memtable ELSE MemtableNew
                /\ last_op' = "reopen" /\ last_key' = <<>> /\ last_result' = r.st
                /\ live' = IF r.st = "Ok" THEN ModelOf(r.memtable) ELSE ModelEmpty
                /\ prev' = memtable /\ prev_calls' = calls /\ calls' = 0
                /\ opens' = opens + 1
                /\ UNCHANGED <<pc, pending, expect, unflushed, len_at_call, nops, all_ok>>
                /\ UNCHANGED <<rdvars, loghist, batch, batch_ops, batch_cleared, read_out, codec>>

NextTorn == InsertOrUpdate \/ Delete \/ Write \/ WriteApply \/ ReopenTorn

SpecTorn == Init /\ [][NextTorn]_vars

\* DB::new has run on a log cut inside its last record.
TornReopened == last_op = "reopen" /\ corrupt # NoCorrupt

\* C36: recovery is total on truncated logs.  DB::new on a log that the
\* writer produced and that was then cut at a byte offset returns an
\* instance or a typed Error: decoding reads no byte beyond those of the
\* file and the process is not aborted.
C36_TornLogRecovers ==
    TornReopened => last_result \in {"Ok", "Err"}

\* ------------------------------------------------------------------------
\* LogWriter::append turn by turn: the call is entered, each turn of its
\* while loop is a step, and the flush after the loop is the last step
\* (log_writer.rs).  pending is the BufferConsumer of the call, calls the
\* record_count of the loop; the operating system's writes succeed or fail
\* turn by turn.
\* ------------------------------------------------------------------------

\* LogWriter::append up to the loop: the check for an empty payload, the
\* consumer and record_count = 0.
AppendBegin ==
    \E n \in PayloadLens :
        LET payload == Pattern(n, 251 + nops)
        IN  /\ rd_state = "writing" /\ pc = "idle" /\ nops < MaxOps
            /\ nops' = nops + 1
            /\ last_op' = "append"
            /\ last_payload' = payload /\ last_emitted' = <<>>
            /\ len_at_call' = Len(file)
            /\ calls' = 0
            /\ IF payload = <<>>
               THEN pc' = "idle" /\ pending' = NoPending /\ last_result' = "ValueError"
               ELSE /\ pc' = "loop" /\ pending' = BufferConsumerNew(payload)
                    /\ last_result' = "pending"
            /\ UNCHANGED <<wvars, memtable, db_state, last_key, expect, unflushed, live,
                           prev, prev_calls, opens, all_ok>>
            /\ UNCHANGED <<rdvars, written, spans, unitvars>>

\* One turn of the loop, entered while the consumer is not done; an error
\* of the file writer ends the call.  A turn is not taken once
\* record_count has passed the length of the payload.
AppendIterate ==
    /\ pc = "loop" /\ ~BCDone(pending)
    /\ calls <= Len(last_payload)
    /\ \E io \in BOOLEAN :
        \E s \in {AppendIteration(Writer, pending, calls, io)} :
            /\ file' = s.w.file /\ fw_buf' = s.w.buf /\ block_pos' = s.w.block_pos
            /\ pending' = s.c
            /\ last_emitted' = last_emitted \o s.rec
            /\ IF s.st = "Ok"
               THEN calls' = calls + 1 /\ pc' = "loop" /\ last_result' = "pending"
               ELSE calls' = calls /\ pc' = "idle" /\ last_result' = s.st
            /\ UNCHANGED <<memtable, db_state, last_op, last_key, expect, unflushed,
                           live, prev, prev_calls, len_at_call, opens, nops, all_ok>>
            /\ UNCHANGED <<rdvars, written, last_payload, spans, unitvars>>

\* The end of the loop, when the consumer is done: the flush and the return
AppendFlush ==
    /\ pc = "loop" /\ BCDone(pending)
    /\ \E io \in BOOLEAN :
        \E f \in {FileWriterFlush(Writer, io)} :
            /\ file' = f.w.file /\ fw_buf' = f.w.buf /\ block_pos' = f.w.block_pos
            /\ pc' = "idle" /\ last_result' = f.st
            /\ UNCHANGED <<memtable, db_state, pending, last_op, last_key, histvars>>
            /\ UNCHANGED <<rdvars, loghist, unitvars>>

NextAppend == AppendBegin \/ AppendIterate \/ AppendFlush

SpecAppend == InitLog /\ [][NextAppend]_vars

\* What a step of a call in progress does to the position of the call: a
\* turn of the loop that goes on to the next (AppendIterate with Ok), or
\* the return (AppendIterate with an error, AppendFlush).
LoopTurn ==
    /\ pc = "loop"
    /\ \/ pc' = "loop" /\ calls' = calls + 1
       \/ pc' = "idle" /\ calls' = calls

\* The call runs on once entered: the thread that called append executes
\* the turn of the loop or the flush that is due.
LiveAppend == SpecAppend /\ WF_<<pc, calls>>(LoopTurn)

\* Bytes of the payload that the records written so far carry
Consumed == Len(ConcatPayloads(last_emitted, 1))

\* Inside a call: every turn taken has consumed at least one byte, what was
\* consumed is what the records carry, in order, and what is left is the
\* rest of the payload.
EachTurnConsumes ==
    pc = "loop" =>
        /\ calls = Len(last_emitted)
        /\ \A i \in 1..Len(last_emitted) : Len(last_emitted[i].payload) >= 1
        /\ calls <= Consumed
        /\ Consumed + BCRemaining(pending) = Len(last_payload)
        /\ IsPrefix(ConcatPayloads(last_emitted, 1), last_payload)

\* C37: LogWriter::append terminates for every non-empty payload from every
\* writer state the calls before it leave.  Each turn of the loop consumes
\* at least one byte of the payload, so record_count never passes
\* len(payload), and a call that was entered returns: with an error of the
\* file writer, or after the flush with the whole payload consumed.
C37_AppendTerminates ==
    /\ []EachTurnConsumes
    /\ (pc = "loop") ~> (pc = "idle" /\ last_result # "Panic"
                            /\ (last_result = "Ok" => Consumed = Len(last_payload)))

\* A call on a payload of two blocks has returned Ok after three turns,
\* made by a writer whose call before it failed.
C37_Witness ==
    /\ pc = "idle" /\ last_op = "append" /\ last_result = "Ok"
    /\ calls = 3 /\ BCDone(pending)
    /\ Len(last_payload) = 2 * DEFAULT_BLOCK_SIZE
    /\ len_at_call < Len(file) - Len(last_payload) - 3 * LOG_RECORD_HEADER_SIZE

====
